---- MODULE Spec2Model ----
(***************************************************************************)
(* A model of textc, the offline text mesh compiler (src/main.c).          *)
(*                                                                         *)
(* Modelled here: the markup compiler (render_string_entry), the shaping   *)
(* adapter (render_page and the renderer callbacks prepare_run and         *)
(* draw_glyphs), the glyph identity registry (used_glyphs, get_glyph_uid,  *)
(* hash_djb2) and the loop of main that drives them; from the later main.c *)
(* (src/unnamed/part_002) the atlas packer, the two-hash build cache, the   *)
(* mesh encoder and main around them.                                      *)
(*                                                                         *)
(* Conventions.  A C string is a sequence of one-character strings; the    *)
(* terminating NUL is implicit (reading at or past the end gives NUL).     *)
(* Offsets and indices keep C's 0-based values, so the character at        *)
(* pointer p of a string s is s[p + 1].  A uint32_t is a pair of 16-bit    *)
(* limbs [h, l] where its width matters (hashes, glyph UIDs); the          *)
(* uint64_t glyph UID is a pair [hi, lo] of such words.                    *)
(***************************************************************************)
EXTENDS Integers, Sequences, FiniteSets, TLC

\* ---------------------------------------------------------------- bounds

\* Number of markup tokens concatenated into a generated markup string.
MaxTokens == 3

\* Number of rows of strings.csv in the specification that compiles a table.
MaxStrings == 3

\* The most glyphs in one glyph string handed to draw_glyphs.
MaxGlyphs == 1

\* The most glyphs of one page.
MaxTypeset == 3

\* The most glyph bitmaps handed to pack_atlas_glyphs on its own.
MaxBitmaps == 3

\* The most quads of a vertex buffer an index buffer is derived for.
MaxQuads == 5

\* The most rows of strings.csv in the specification of a whole build.
MaxRows == 1

\* The runs of the program, one after another, in one directory.
MaxRuns == 2

\* ---------------------------------------------------------------- C basics

NUL == ""

NULL == -1

\* UINT32_MAX, the value memset(.., 0xFF, ..) leaves in a uint32_t; kept as
\* the two's complement reading of the same bits.
UINT32_MAX == -1

Last(s) == s[Len(s)]

Front(s) == SubSeq(s, 1, Len(s) - 1)

\* The NUL-terminated string that starts at pointer p inside string s.
CStr(s, p) == SubSeq(s, p + 1, Len(s))

\* *(s + p) for a pointer into s; one before the start is never read.
CharAt(s, p) == IF p >= 0 /\ p < Len(s) THEN s[p + 1] ELSE NUL

RECURSIVE StrncmpIsZero(_, _, _)
\* strncmp(s1, s2, n) == 0: at most n characters are compared and the
\* comparison stops at the first difference or at a NUL.
StrncmpIsZero(s1, s2, n) ==
    IF n = 0 THEN TRUE
    ELSE LET c1 == IF s1 = <<>> THEN NUL ELSE Head(s1)
             c2 == IF s2 = <<>> THEN NUL ELSE Head(s2)
         IN  IF c1 # c2 THEN FALSE
             ELSE IF c1 = NUL THEN TRUE
             ELSE StrncmpIsZero(Tail(s1), Tail(s2), n - 1)

\* strcmp(s1, s2) == 0.
StrcmpIsZero(s1, s2) == s1 = s2

RECURSIVE Flatten(_)
Flatten(ts) == IF ts = <<>> THEN <<>> ELSE Head(ts) \o Flatten(Tail(ts))

\* ---------------------------------------------------------------- uint32_t

Limb == 2 ^ 16

\* The uint32_t with value n, for a number n below 2^31.
W32(n) == [h |-> ((n \div Limb) % Limb), l |-> (n % Limb)]

\* (w << 5) in uint32_t arithmetic.
Shl5(w) ==
    LET lo == w.l * 32
    IN  [h |-> (((w.h * 32) + (lo \div Limb)) % Limb), l |-> (lo % Limb)]

\* (a + b) in uint32_t arithmetic.
Add32(a, b) ==
    LET lo == a.l + b.l
    IN  [h |-> ((a.h + b.h + (lo \div Limb)) % Limb), l |-> (lo % Limb)]

RECURSIVE XorBits(_, _, _)
\* a ^ b on the low n bits.
XorBits(a, b, n) ==
    IF n = 0 THEN 0
    ELSE (((a % 2) + (b % 2)) % 2) + (2 * XorBits(a \div 2, b \div 2, n - 1))

\* (w ^ byte): the byte is promoted, so only the low 8 bits change.
XorByte(w, byte) ==
    [h |-> w.h, l |-> (w.l - (w.l % 256)) + XorBits(w.l % 256, byte, 8)]

RECURSIVE HashDjb2Acc(_, _)
\* The loop of hash_djb2 over the bytes it visits, in order: the value of
\* *hash after the first half of the bytes is carried through the second
\* half, and one byte makes one step of the loop.
HashDjb2Acc(hash, bytes) ==
    IF bytes = <<>> THEN hash
    ELSE IF Len(bytes) = 1
         THEN Add32(Shl5(hash), XorByte(hash, Head(bytes)))
         ELSE LET half == Len(bytes) \div 2
                  mid  == HashDjb2Acc(hash, SubSeq(bytes, 1, half))
              IN  IF mid.l >= 0
                  THEN HashDjb2Acc(mid, SubSeq(bytes, half + 1, Len(bytes)))
                  ELSE mid

hash_djb2(bytes) == HashDjb2Acc(W32(5381), bytes)

\* ---------------------------------------------------------------- bytes

Letters ==
    << "a", "b", "c", "d", "e", "f", "g", "h", "i", "j", "k", "l", "m",
       "n", "o", "p", "q", "r", "s", "t", "u", "v", "w", "x", "y", "z" >>

\* The byte value of a lowercase letter (face names are file names).
ByteOf(c) == 96 + (CHOOSE i \in 1..Len(Letters) : Letters[i] = c)

BytesOf(str) == [i \in 1..Len(str) |-> ByteOf(str[i])]

\* ---------------------------------------------------------------- glyph UID

\* get_glyph_uid: ((uint64_t)face_hash << 32) | (uint64_t)id.
get_glyph_uid(face, id) == [hi |-> hash_djb2(BytesOf(face)), lo |-> W32(id)]

\* The conversion of the uint64_t UID to the uint32_t it is stored in
\* (used_glyph_uid, GlyphId.uid, TypesetGlyph.glyph_uid): the low word.
Truncate32(uid64) == uid64.lo

\* ---------------------------------------------------------------- inputs

Sans == << "s", "a", "n", "s" >>

Mono == << "m", "o", "n", "o" >>

\* A row of styles.csv as parse_styles_csv_row stores it.
StylesCsvEntry(name, face, size) ==
    [name |-> name, style |-> [face |-> face, size |-> size, lineheight |-> 1]]

\* The styles tables the model draws from.  Row 0 is the default style.  In
\* the first table the name of row 2 is a proper prefix of the name of row 1.
StyleTables ==
    { << StylesCsvEntry(<< "n" >>, Sans, 12),
         StylesCsvEntry(<< "b", "b" >>, Mono, 12),
         StylesCsvEntry(<< "b" >>, Sans, 16) >>,
      << StylesCsvEntry(<< "n" >>, Sans, 12),
         StylesCsvEntry(<< "b" >>, Mono, 12) >> }

\* A row of strings.csv for the selected language.
StringsCsvEntry(key, width, height, text) ==
    [key |-> key, width |-> width, height |-> height, text |-> text]

\* ---------------------------------------------------------------- fonts

\* The character map of the fonts: the native glyph index of a character is
\* its position here, the same in every face.
Cmap ==
    << " ", ".", "a", "b", "c", "d", "e", "f", "n", "x", "y", "z",
       "[", "]", "#", "-", "/" >>

GlyphIndex(c) == CHOOSE i \in 1..Len(Cmap) : Cmap[i] = c

\* Ink extents, in the unit the test of draw_glyphs compares with 1: a space
\* has no ink, a full stop is one unit wide and high.
InkWidth(c) == IF c = " " THEN 0 ELSE IF c = "." THEN 1 ELSE 6

InkHeight(c) == IF c = " " THEN 0 ELSE IF c = "." THEN 1 ELSE 8

\* PANGO_GLYPH_EMPTY (0x0FFFFFFF) and PANGO_GLYPH_UNKNOWN_FLAG (0x10000000).
PANGO_GLYPH_EMPTY == 268435455

PANGO_GLYPH_UNKNOWN_FLAG == 268435456

\* One glyph of a PangoGlyphString with its extents: x and y are
\* the pen position plus the glyph offset plus the ink origin.
GlyphInfo(glyph, w, h, x, y, cluster) ==
    [glyph |-> glyph, ink_w |-> w, ink_h |-> h, x |-> x, y |-> y,
     log_cluster |-> cluster]

\* What the shaping engine emits for a laid out page: one run per attribute
\* range, left to right, one glyph per character.  The run's face is the
\* face of the range's style and its offset the start of the range.
PangoLayoutRuns(styles, text, attr_list) ==
    [r \in 1..Len(attr_list) |->
        LET a == attr_list[r]
        IN  [face   |-> styles[a.style + 1].style.face,
             offset |-> a.start,
             glyphs |-> [k \in 1..(a.end - a.start) |->
                 LET c == text[a.start + k]
                 IN  GlyphInfo(GlyphIndex(c), InkWidth(c), InkHeight(c),
                               8 * (a.start + k - 1), 0, k - 1)]]]

\* ---------------------------------------------------------------- renderer

\* The renderer fields the callbacks read and write.
Renderer(used, typeset, face, offset) ==
    [used_glyphs |-> used, typeset_glyphs |-> typeset,
     cur_face |-> face, cur_source_offset |-> offset]

\* shim_renderer_prepare_run.
PrepareRun(rs, run) ==
    [rs EXCEPT !.cur_source_offset = run.offset, !.cur_face = run.face]

\* The test that keeps a glyph: not the empty glyph, ink wider and taller
\* than 1.
Survives(gi) ==
    gi.glyph # PANGO_GLYPH_EMPTY /\ gi.ink_w > 1 /\ gi.ink_h > 1

\* gi->glyph & PANGO_GLYPH_UNKNOWN_FLAG.
IsUnknownGlyph(gi) == (gi.glyph \div PANGO_GLYPH_UNKNOWN_FLAG) % 2 = 1

Registered(gi) == Survives(gi) /\ ~IsUnknownGlyph(gi)

\* Variant of FindUsedGlyph that compares the glyph index alone.
FindUsedGlyphAnyFace(used, face, glyph) ==
    LET hits == { i \in 1..Len(used) : used[i].id = glyph }
    IN  IF hits = {} THEN 0 ELSE CHOOSE i \in hits : \A j \in hits : i <= j

\* The search of used_glyphs: the position (from 1) of the first entry with
\* this glyph index and this face, 0 when there is none.
FindUsedGlyph(used, face, glyph) ==
    LET hits == { i \in 1..Len(used) :
                    used[i].id = glyph /\ StrcmpIsZero(used[i].face, face) }
    IN  IF hits = {} THEN 0 ELSE CHOOSE i \in hits : \A j \in hits : i <= j

\* The UID a new registry entry gets: get_glyph_uid assigned to the
\* uint32_t used_glyph_uid.
NewGlyphUid(face, glyph) == Truncate32(get_glyph_uid(face, glyph))

\* One iteration of the loop of shim_renderer_draw_glyphs.
DrawGlyph(rs, gi) ==
    IF ~Registered(gi) THEN rs
    ELSE
        LET k == FindUsedGlyph(rs.used_glyphs, rs.cur_face, gi.glyph)
            uid == IF k # 0 THEN rs.used_glyphs[k].uid
                   ELSE NewGlyphUid(rs.cur_face, gi.glyph)
            used == IF k # 0 THEN rs.used_glyphs
                    ELSE Append(rs.used_glyphs,
                                [face |-> rs.cur_face, uid |-> uid, id |-> gi.glyph])
        IN  [rs EXCEPT
                !.used_glyphs = used,
                !.typeset_glyphs = Append(@,
                    [source_idx |-> gi.log_cluster + rs.cur_source_offset,
                     glyph_uid  |-> uid,
                     x0 |-> gi.x, y0 |-> gi.y,
                     x1 |-> gi.x + gi.ink_w, y1 |-> gi.y + gi.ink_h])]

RECURSIVE DrawGlyphs(_, _)
\* shim_renderer_draw_glyphs over one glyph string.
DrawGlyphs(rs, glyphs) ==
    IF glyphs = <<>> THEN rs
    ELSE DrawGlyphs(DrawGlyph(rs, Head(glyphs)), Tail(glyphs))

RECURSIVE DrawLayout(_, _)
\* pango_renderer_draw_layout: prepare_run, then draw_glyphs, for each run.
DrawLayout(rs, runs) ==
    IF runs = <<>> THEN rs
    ELSE DrawLayout(DrawGlyphs(PrepareRun(rs, Head(runs)), Head(runs).glyphs),
                    Tail(runs))

\* ---------------------------------------------------------------- render_page

RemoveAt(s, i) == SubSeq(s, 1, i - 1) \o SubSeq(s, i + 1, Len(s))

RECURSIVE SortedOrders(_)
\* Every result qsort may give with typeset_glyph_sort_ascending_source_idx:
\* ascending source_idx, glyphs that compare equal in any order.
SortedOrders(glyphs) ==
    IF glyphs = <<>> THEN { <<>> }
    ELSE
        LET least == { i \in 1..Len(glyphs) :
                         \A j \in 1..Len(glyphs) :
                             glyphs[i].source_idx <= glyphs[j].source_idx }
        IN  UNION { { << glyphs[i] >> \o rest :
                        rest \in SortedOrders(RemoveAt(glyphs, i)) } : i \in least }

RECURSIVE SetGlyphIndices(_, _, _)
\* for (i ..) index_map[glyphs[i].source_idx] = i;  from glyph i on.
SetGlyphIndices(index_map, glyphs, i) ==
    IF i >= Len(glyphs) THEN index_map
    ELSE SetGlyphIndices([index_map EXCEPT ![glyphs[i + 1].source_idx] = i],
                         glyphs, i + 1)

RECURSIVE FillForward(_, _, _)
\* The loop that gives every unset offset the last set value before it.
FillForward(index_map, i, prev) ==
    IF i \notin DOMAIN index_map THEN index_map
    ELSE IF index_map[i] = UINT32_MAX
         THEN FillForward([index_map EXCEPT ![i] = prev], i + 1, prev)
         ELSE FillForward(index_map, i + 1, index_map[i])

\* index_map after the two loops, for a page text of contents_len bytes.
IndexMap(glyphs, contents_len) ==
    FillForward(
        SetGlyphIndices([o \in 0..(contents_len - 1) |-> UINT32_MAX], glyphs, 0),
        0, 0)

\* The words a read past the end of index_map may find: the arena's fresh
\* pages read as zero; the read is out of bounds, so any word may be there.
OutOfBoundsWords == { 0, UINT32_MAX }

\* The offsets of user tags that lie outside index_map.
OutOfBoundsReads(user_tags, contents_len) ==
    { o \in { user_tags[t].start_idx : t \in 1..Len(user_tags) }
            \cup { user_tags[t].end_idx : t \in 1..Len(user_tags) } :
        o < 0 \/ o >= contents_len }

\* index_map[o] as the rewrite of a tag reads it.
ReadIndexMap(index_map, beyond, o) ==
    IF o \in DOMAIN index_map THEN index_map[o] ELSE beyond[o]

\* The loop that rewrites start_idx and end_idx of every user tag.
RemapUserTags(user_tags, index_map, beyond) ==
    [t \in 1..Len(user_tags) |->
        [user_tags[t] EXCEPT
            !.start_idx = ReadIndexMap(index_map, beyond, @),
            !.end_idx = ReadIndexMap(index_map, beyond, @)]]

\* render_page once the layout is drawn: the renderer's glyphs sorted, the
\* tags rewritten, both copied into the RenderedPage.
RenderedPage(sorted, user_tags, contents_len, beyond) ==
    [user_tags      |-> RemapUserTags(user_tags, IndexMap(sorted, contents_len), beyond),
     typeset_glyphs |-> sorted]

\* ---------------------------------------------------------------- state

VARIABLES
    styles,             \* input.styles, rows of styles.csv
    strings,            \* input.strings, rows of strings.csv
    earlier_runs,       \* the runs of the program in this directory before
                        \* the present one: arguments, exit status, skipped
    string_idx,         \* main: the loop counter i over the strings
    results,            \* main: the RenderedStrings kept for the encoder
    pc,                 \* where the program is: "main", "scan", "render";
                        \* in a whole build also "start", "lang", "write", "exit"
    page_read,          \* render_string_entry: read cursor into the markup
    tag_start,          \* start of the tag being read, NULL outside a tag
    in_style_tag,       \* the tag being read began with [#-
    page_write,         \* the page text written so far (page_buffer up to page_write)
    cur_style,          \* index of the current style's row
    attr_range_start,   \* where the next style attribute range starts
    attr_list,          \* the page's style attribute ranges
    style_history,      \* stack of style rows
    user_tag_stack,     \* stack of open user tags
    user_tags,          \* closed user tags of the page
    pages_acc,          \* RenderedPages of the string so far
    used_glyphs,        \* renderer: the glyph identity registry
    typeset_glyphs,     \* renderer: glyphs of the page being shaped
    cur_face,           \* renderer: face of the run being drawn
    cur_source_offset,  \* renderer: byte offset of the run being drawn
    layout_calls,       \* every layout handed to the shaping engine so far
    shaped_glyphs,      \* every glyph handed to draw_glyphs so far, with its face
    pack,               \* pack_atlas_glyphs: its arguments and locals
    glyph_uvs,          \* main's glyph_uvs: << >> before bake returns, then
                        \* << the AtlasGlyphUv table >>
    index_buffer,       \* the README's textc_fill_index_buffer: its arguments,
                        \* its locals and the buffer it fills
    argv,               \* the arguments after the program's name
    input,              \* main's InputCsv: hash, cached_hash_matched, and
                        \* whether the tables were parsed
    cache_file,         \* .cache: << >> when there is no file, else << record >>
    strings_file,       \* bin/strings.txtc: << >> or << its words >>
    atlas_file,         \* bin/atlas.png: << >> or << the image >>
    exit_status,        \* "running", then "0" or "1" (main returned) or the
                        \* signal that ended the program
    rasterizer_calls    \* the glyphs msdfgen was run for, in order

input_vars == << styles, strings, earlier_runs >>

main_vars == << string_idx, results >>

scan_vars ==
    << page_read, tag_start, in_style_tag, page_write, cur_style,
       attr_range_start, attr_list, style_history, user_tag_stack, user_tags,
       pages_acc >>

renderer_vars == << used_glyphs, typeset_glyphs, cur_face, cur_source_offset >>

log_vars == << layout_calls, shaped_glyphs >>

\* What lies outside the shaping loop: the atlas and its packing.
atlas_vars == << pack, glyph_uvs >>

\* The consumer's side: the index buffer derived from a vertex count.
index_vars == << index_buffer >>

\* The files the program writes.
file_vars == << cache_file, strings_file, atlas_file >>

\* main around the shaping loop.
build_vars == << argv, input, file_vars, exit_status, rasterizer_calls >>

env_vars == << atlas_vars, index_vars, build_vars >>

vars ==
    << input_vars, main_vars, pc, scan_vars, renderer_vars, log_vars, env_vars >>

\* ---------------------------------------------------------------- markup inputs

\* The pieces generated markup is built from: plain text, stray brackets, an
\* unterminated opener, and whole tags (empty, page break, close, user tag,
\* style pop, three style names).
Tokens ==
    { << "a" >>, << "[" >>, << "]" >>, << "[", "#" >>,
      << "[", "#", "]" >>,
      << "[", "#", ".", "]" >>,
      << "[", "#", "/", "]" >>,
      << "[", "#", "x", "]" >>,
      << "[", "#", "-", "]" >>,
      << "[", "#", "-", "b", "]" >>,
      << "[", "#", "-", "b", "b", "]" >>,
      << "[", "#", "-", "z", "]" >> }

\* "[x]ab[y]cd[/]ef[/]"
ExampleBareTags ==
    << "[", "x", "]", "a", "b", "[", "y", "]", "c", "d",
       "[", "/", "]", "e", "f", "[", "/", "]" >>

\* "[#x]ab[#y]cd[#/]ef[#/]"
ExampleNestedTags ==
    << "[", "#", "x", "]", "a", "b", "[", "#", "y", "]", "c", "d",
       "[", "#", "/", "]", "e", "f", "[", "#", "/", "]" >>

\* "a[[#b]c"
ExampleEscape == << "a", "[", "[", "#", "b", "]", "c" >>

\* "[#-bb]a[#-b]a[#-]a[#-]a"
ExampleNestedStyles ==
    << "[", "#", "-", "b", "b", "]", "a", "[", "#", "-", "b", "]", "a",
       "[", "#", "-", "]", "a", "[", "#", "-", "]", "a" >>

\* "[#x[[#y]a"
ExampleEscapeInTag == << "[", "#", "x", "[", "[", "#", "y", "]", "a" >>

\* "a b.[#.] c"
ExampleBlanks == << "a", " ", "b", ".", "[", "#", ".", "]", " ", "c" >>

\* "a[#-b]a[#.]a[#-]a"
ExampleStyledPages ==
    << "a", "[", "#", "-", "b", "]", "a", "[", "#", ".", "]", "a",
       "[", "#", "-", "]", "a" >>

\* "a[#-b]a"
ExampleOpenStyle == << "a", "[", "#", "-", "b", "]", "a" >>

\* "[#x]a[#/][#.]b"
ExampleTagPages ==
    << "[", "#", "x", "]", "a", "[", "#", "/", "]", "[", "#", ".", "]", "b" >>

\* "[[#a[#-b]a[#-]a"
ExampleEscapeStyles ==
    << "[", "[", "#", "a", "[", "#", "-", "b", "]", "a", "[", "#", "-", "]", "a" >>

\* " ": a text without ink.
ExampleBlank == << " " >>

\* "ab[#x]c[#/]"
ExampleTagAtEnd ==
    << "a", "b", "[", "#", "x", "]", "c", "[", "#", "/", "]" >>

\* "a[#x] b[#/]c"
ExampleTagOnBlank ==
    << "a", "[", "#", "x", "]", " ", "b", "[", "#", "/", "]", "c" >>

\* "ab[#x]c[#.]d[#/]"
ExampleTagOverBreak ==
    << "a", "b", "[", "#", "x", "]", "c", "[", "#", ".", "]", "d",
       "[", "#", "/", "]" >>

Examples ==
    { ExampleOpenStyle, ExampleBareTags, ExampleNestedTags, ExampleEscape, ExampleNestedStyles,
      ExampleEscapeInTag, ExampleBlanks, ExampleStyledPages, ExampleTagAtEnd,
      ExampleTagOnBlank, ExampleTagOverBreak }

Markups ==
    { Flatten(ts) : ts \in UNION { [1..n -> Tokens] : n \in 0..MaxTokens } }
        \cup Examples

\* ---------------------------------------------------------------- initial state

\* The locals of render_string_entry before its first call, and the renderer
\* as shim_renderer_new leaves it.
InitLocals ==
    /\ string_idx = 0
    /\ results = << >>
    /\ page_read = 0
    /\ tag_start = NULL
    /\ in_style_tag = FALSE
    /\ page_write = << >>
    /\ cur_style = 0
    /\ attr_range_start = 0
    /\ attr_list = << >>
    /\ style_history = << >>
    /\ user_tag_stack = << >>
    /\ user_tags = << >>
    /\ pages_acc = << >>
    /\ used_glyphs = << >>
    /\ typeset_glyphs = << >>
    /\ cur_face = << >>
    /\ cur_source_offset = 0
    /\ layout_calls = << >>
    /\ shaped_glyphs = {}

\* main is about to enter its shaping loop.
InitProgram ==
    /\ pc = "main"
    /\ InitLocals

\* main is inside its shaping loop: the language was found, no file was
\* written, nothing was rasterized.
IdleBuild ==
    /\ argv = << << "e", "n" >> >>
    /\ input = [ hash |-> W32(0), cached_hash_matched |-> FALSE, parsed |-> TRUE ]
    /\ cache_file = << >>
    /\ strings_file = << >>
    /\ atlas_file = << >>
    /\ exit_status = "running"
    /\ rasterizer_calls = << >>

\* No atlas is being packed and there is no UV table.
IdleEnv ==
    /\ pack = [ pc |-> "idle" ]
    /\ glyph_uvs = << >>
    /\ index_buffer = [ pc |-> "idle" ]
    /\ IdleBuild

\* One string of generated markup, compiled with either styles table.
Init ==
    /\ IdleEnv
    /\ styles \in StyleTables
    /\ earlier_runs = << >>
    /\ strings \in { << StringsCsvEntry(<< "k" >>, 8, 8, m) >> : m \in Markups }
    /\ InitProgram

\* ---------------------------------------------------------------- render_string_entry

\* The language columns of the header of strings.csv.
Languages == << << "e", "n" >>, << "f", "r" >> >>

\* entry->languages of a row: its text in every language.  The tables of
\* the model hold, in the column of the second language, the text of the
\* first behind the letter b.
LanguageTexts(row) == << row.text, << "b" >> \o row.text >>

\* lang_idx (from 1): the first language of the header that is argv[1].
LanguageIdx ==
    CHOOSE i \in 1..Len(Languages) :
        /\ StrcmpIsZero(Languages[i], argv[1])
        /\ \A j \in 1..(i - 1) : ~StrcmpIsZero(Languages[j], argv[1])

\* string->languages[language_idx], the markup being compiled.
content_base == LanguageTexts(strings[string_idx + 1])[LanguageIdx]

\* while (*page_read)
MoreInput == page_read < Len(content_base)

\* *page_read == '[' && *(page_read + 1) == '#'
AtTagOpener ==
    CharAt(content_base, page_read) = "["
        /\ CharAt(content_base, page_read + 1) = "#"

\* Variant of AfterBracket in which no "[#" counts as escaped.
AfterBracketNever == FALSE

\* page_read > content_base && *(page_read - 1) == '['
AfterBracket == page_read > 0 /\ CharAt(content_base, page_read - 1) = "["

\* *page_read == ']' inside a tag
AtTagEnd ==
    ~AtTagOpener /\ tag_start # NULL /\ CharAt(content_base, page_read) = "]"

tag_len == page_read - tag_start

\* The text of the tag being closed (tag_start, tag_len).
TagValue == SubSeq(content_base, tag_start + 1, tag_start + tag_len)

\* write_style_attr_range: one range per call (its three attributes share
\* start and end), nothing when the range is empty.
WriteStyleAttrRange(list, style, start, end) ==
    IF end <= start THEN list
    ELSE Append(list, [style |-> style, start |-> start, end |-> end])

\* The loop over input->styles: the first row whose name strncmp finds equal
\* to the tag over tag_len characters, NULL when no row is.
FindStyle(table, tag, len) ==
    LET hits == { i \in 0..(Len(table) - 1) :
                    StrncmpIsZero(table[i + 1].name, tag, len) }
    IN  IF hits = {} THEN NULL ELSE CHOOSE i \in hits : \A j \in hits : i <= j

\* Variant of InitialStyle in which a string starts in the style the string
\* before it ended in.
InitialStyleCarried == cur_style

\* TextStyle* cur_style = &input->styles[0].style: row 0 of the table.
InitialStyle == 0

\* Entry of render_string_entry for the next string of main's loop.
BeginString ==
    /\ pc = "main"
    /\ string_idx < Len(strings)
    /\ pc' = "scan"
    /\ page_read' = 0
    /\ tag_start' = NULL
    /\ in_style_tag' = FALSE
    /\ page_write' = << >>
    /\ cur_style' = InitialStyle
    /\ attr_range_start' = 0
    /\ attr_list' = << >>
    /\ style_history' = << >>
    /\ user_tag_stack' = << >>
    /\ user_tags' = << >>
    /\ pages_acc' = << >>
    /\ UNCHANGED << input_vars, env_vars, main_vars, renderer_vars, log_vars >>

\* "[#" not preceded by '[': a tag starts; "[#-" starts a style tag.
TagOpen ==
    /\ pc = "scan" /\ MoreInput
    /\ AtTagOpener /\ ~AfterBracket
    /\ LET dash == CharAt(content_base, page_read + 2) = "-"
       IN  /\ in_style_tag' = (dash \/ in_style_tag)
           /\ tag_start' = IF dash THEN page_read + 3 ELSE page_read + 2
           /\ page_read' = IF dash THEN page_read + 3 ELSE page_read + 2
    /\ UNCHANGED << input_vars, env_vars, main_vars, pc, page_write, cur_style,
                    attr_range_start, attr_list, style_history, user_tag_stack,
                    user_tags, pages_acc, renderer_vars, log_vars >>

\* The '[' of "[#" right after a '[': nothing is written and no tag starts.
EscapedOpener ==
    /\ pc = "scan" /\ MoreInput
    /\ AtTagOpener /\ AfterBracket
    /\ page_read' = page_read + 1
    /\ UNCHANGED << input_vars, env_vars, main_vars, pc, tag_start, in_style_tag,
                    page_write, cur_style, attr_range_start, attr_list,
                    style_history, user_tag_stack, user_tags, pages_acc,
                    renderer_vars, log_vars >>

\* Outside a tag: the character is copied to the page text.
CopyChar ==
    /\ pc = "scan" /\ MoreInput
    /\ ~AtTagOpener /\ tag_start = NULL
    /\ page_write' = Append(page_write, CharAt(content_base, page_read))
    /\ page_read' = page_read + 1
    /\ UNCHANGED << input_vars, env_vars, main_vars, pc, tag_start, in_style_tag,
                    cur_style, attr_range_start, attr_list, style_history,
                    user_tag_stack, user_tags, pages_acc, renderer_vars,
                    log_vars >>

\* Inside a tag, not at its ']': the character is skipped.
SkipTagChar ==
    /\ pc = "scan" /\ MoreInput
    /\ ~AtTagOpener /\ tag_start # NULL
    /\ CharAt(content_base, page_read) # "]"
    /\ page_read' = page_read + 1
    /\ UNCHANGED << input_vars, env_vars, main_vars, pc, tag_start, in_style_tag,
                    page_write, cur_style, attr_range_start, attr_list,
                    style_history, user_tag_stack, user_tags, pages_acc,
                    renderer_vars, log_vars >>

\* Variant of NextAttrRangeStart in which the range start stays where it was.
NextAttrRangeStartStale(attr_range_end) == attr_range_start

\* attr_range_start after a style tag has closed the range up to attr_range_end.
NextAttrRangeStart(attr_range_end) == attr_range_end

\* The end of a tag of any kind: tag_start = NULL; in_style_tag = false; page_read++.
LeaveTag ==
    /\ tag_start' = NULL
    /\ in_style_tag' = FALSE
    /\ page_read' = page_read + 1

\* Variant of PoppedStyle in which a pop takes the oldest style of the history.
PoppedStyleOldest(history) == Head(history)

\* *ArenaPopT(TextStyle*, &style_history)
PoppedStyle(history) == Last(history)

\* "[#-]": the current range is closed and the style history popped.
PopStyle ==
    /\ pc = "scan" /\ MoreInput
    /\ AtTagEnd /\ in_style_tag /\ tag_len = 0
    /\ attr_list' = WriteStyleAttrRange(attr_list, cur_style, attr_range_start,
                                        Len(page_write))
    /\ attr_range_start' = NextAttrRangeStart(Len(page_write))
    /\ IF Len(style_history) > 0
       THEN /\ cur_style' = PoppedStyle(style_history)
            /\ style_history' = Front(style_history)
       ELSE UNCHANGED << cur_style, style_history >>
    /\ LeaveTag
    /\ UNCHANGED << input_vars, env_vars, main_vars, pc, page_write, user_tag_stack,
                    user_tags, pages_acc, renderer_vars, log_vars >>

\* "[#-name]": the current range is closed and the style looked up.
SetStyle ==
    /\ pc = "scan" /\ MoreInput
    /\ AtTagEnd /\ in_style_tag /\ tag_len # 0
    /\ attr_list' = WriteStyleAttrRange(attr_list, cur_style, attr_range_start,
                                        Len(page_write))
    /\ attr_range_start' = NextAttrRangeStart(Len(page_write))
    /\ LET i == FindStyle(styles, CStr(content_base, tag_start), tag_len)
       IN  IF i # NULL
           THEN /\ style_history' = Append(style_history, cur_style)
                /\ cur_style' = i
           ELSE UNCHANGED << cur_style, style_history >>
    /\ LeaveTag
    /\ UNCHANGED << input_vars, env_vars, main_vars, pc, page_write, user_tag_stack,
                    user_tags, pages_acc, renderer_vars, log_vars >>

\* !strncmp(tag_start, ".", tag_len)
IsPageBreakTag == StrncmpIsZero(CStr(content_base, tag_start), << "." >>, tag_len)

\* !strncmp(tag_start, "/", tag_len)
IsEndUserTag == StrncmpIsZero(CStr(content_base, tag_start), << "/" >>, tag_len)

\* A page break tag: the last range is closed and the page is ready to render.
PageBreak ==
    /\ pc = "scan" /\ MoreInput
    /\ AtTagEnd /\ ~in_style_tag /\ IsPageBreakTag
    /\ attr_list' = WriteStyleAttrRange(attr_list, cur_style, attr_range_start,
                                        Len(page_write))
    /\ pc' = "render"
    /\ UNCHANGED << input_vars, env_vars, main_vars, page_read, tag_start, in_style_tag,
                    page_write, cur_style, attr_range_start, style_history,
                    user_tag_stack, user_tags, pages_acc, renderer_vars,
                    log_vars >>

\* Variant of PoppedUserTag in which a close takes the tag opened first.
PoppedUserTagOldest(stack) == Head(stack)

\* The tag a close pops from the stack of open tags.
PoppedUserTag(stack) == Last(stack)

\* "[#/]": the last opened tag is closed at the current offset.
EndUserTag ==
    /\ pc = "scan" /\ MoreInput
    /\ AtTagEnd /\ ~in_style_tag /\ ~IsPageBreakTag /\ IsEndUserTag
    /\ IF Len(user_tag_stack) > 0
       THEN /\ user_tags' = Append(user_tags,
                [PoppedUserTag(user_tag_stack) EXCEPT !.end_idx = Len(page_write)])
            /\ user_tag_stack' = Front(user_tag_stack)
       ELSE UNCHANGED << user_tags, user_tag_stack >>
    /\ LeaveTag
    /\ UNCHANGED << input_vars, env_vars, main_vars, pc, page_write, cur_style,
                    attr_range_start, attr_list, style_history, pages_acc,
                    renderer_vars, log_vars >>

\* Any other tag opens a user tag at the current offset.
StartUserTag ==
    /\ pc = "scan" /\ MoreInput
    /\ AtTagEnd /\ ~in_style_tag /\ ~IsPageBreakTag /\ ~IsEndUserTag
    /\ user_tag_stack' = Append(user_tag_stack,
            [value |-> TagValue, value_len |-> tag_len,
             start_idx |-> Len(page_write), end_idx |-> 0])
    /\ LeaveTag
    /\ UNCHANGED << input_vars, env_vars, main_vars, pc, page_write, cur_style,
                    attr_range_start, attr_list, style_history, user_tags,
                    pages_acc, renderer_vars, log_vars >>

\* End of the markup: the last range is closed and the last page is ready.
EndOfInput ==
    /\ pc = "scan" /\ ~MoreInput
    /\ attr_list' = WriteStyleAttrRange(attr_list, cur_style, attr_range_start,
                                        Len(page_write))
    /\ pc' = "render"
    /\ UNCHANGED << input_vars, env_vars, main_vars, page_read, tag_start, in_style_tag,
                    page_write, cur_style, attr_range_start, style_history,
                    user_tag_stack, user_tags, pages_acc, renderer_vars,
                    log_vars >>

\* The glyphs of one glyph string as the log of shaped glyphs keeps them.
ShapedGlyphs(face, glyphs) ==
    { [face |-> face, glyph |-> glyphs[k].glyph, ink_w |-> glyphs[k].ink_w,
       ink_h |-> glyphs[k].ink_h] : k \in 1..Len(glyphs) }

\* What a call of render_page for the page at hand can give: the layout is
\* handed to the shaping engine, its glyphs are drawn into the renderer and
\* sorted, and the tags rewritten.  page is the RenderedPage returned,
\* renderer the renderer afterwards, runs what the shaping engine emitted.
RenderPageOutcomes ==
    LET runs == PangoLayoutRuns(styles, page_write, attr_list)
        drawn == DrawLayout(
                    Renderer(used_glyphs, << >>, cur_face, cur_source_offset), runs)
    IN  { [runs     |-> runs,
           page     |-> RenderedPage(sorted, user_tags, Len(page_write), beyond),
           renderer |-> [drawn EXCEPT !.typeset_glyphs = sorted]] :
            sorted \in SortedOrders(drawn.typeset_glyphs),
            beyond \in [OutOfBoundsReads(user_tags, Len(page_write))
                           -> OutOfBoundsWords] }

\* The layout of the page at hand as the shaping engine receives it.
LayoutCall ==
    [string    |-> string_idx,
     page      |-> Len(pages_acc),
     text      |-> page_write,
     attr_list |-> attr_list,
     user_tags |-> user_tags]

\* The renderer and the log of layouts after a call of render_page.
AfterRenderPage(out) ==
    /\ used_glyphs' = out.renderer.used_glyphs
    /\ typeset_glyphs' = out.renderer.typeset_glyphs
    /\ cur_face' = out.renderer.cur_face
    /\ cur_source_offset' = out.renderer.cur_source_offset
    /\ layout_calls' = Append(layout_calls, LayoutCall)
    /\ shaped_glyphs' = shaped_glyphs \cup
            UNION { ShapedGlyphs(out.runs[r].face, out.runs[r].glyphs) :
                      r \in 1..Len(out.runs) }

\* The page of a page break is rendered and the page state reset.
RenderPage ==
    /\ pc = "render" /\ MoreInput
    /\ \E out \in RenderPageOutcomes :
        /\ AfterRenderPage(out)
        /\ pages_acc' = Append(pages_acc, out.page)
    /\ page_write' = << >>
    /\ attr_list' = << >>
    /\ attr_range_start' = 0
    /\ user_tags' = << >>
    /\ LeaveTag
    /\ pc' = "scan"
    /\ UNCHANGED << input_vars, env_vars, main_vars, cur_style, style_history,
                    user_tag_stack >>

\* The last page is rendered, render_string_entry frees its arenas and
\* returns, and main keeps the RenderedString when the string's width is
\* not 0.
RenderLastPage ==
    /\ pc = "render" /\ ~MoreInput
    /\ \E out \in RenderPageOutcomes :
        /\ AfterRenderPage(out)
        /\ results' = IF strings[string_idx + 1].width > 0
                      THEN Append(results, Append(pages_acc, out.page))
                      ELSE results
    /\ style_history' = << >>
    /\ user_tag_stack' = << >>
    /\ user_tags' = << >>
    /\ pages_acc' = << >>
    /\ string_idx' = string_idx + 1
    /\ pc' = "main"
    /\ UNCHANGED << input_vars, env_vars, page_read, tag_start, in_style_tag, page_write,
                    cur_style, attr_range_start, attr_list >>

Next ==
    \/ BeginString
    \/ TagOpen
    \/ EscapedOpener
    \/ CopyChar
    \/ SkipTagChar
    \/ PopStyle
    \/ SetStyle
    \/ PageBreak
    \/ EndUserTag
    \/ StartUserTag
    \/ EndOfInput
    \/ RenderPage
    \/ RenderLastPage

Spec == Init /\ [][Next]_vars

\* ---------------------------------------------------------------- a table of strings

\* The markups the rows of a table are drawn from.
TableMarkups ==
    { ExampleNestedTags, ExampleEscape, ExampleStyledPages, ExampleOpenStyle }

\* A strings table of one to MaxStrings rows; rows may repeat a markup, and a
\* row of width 0 is compiled but not kept.
InitTable ==
    /\ IdleEnv
    /\ styles \in StyleTables
    /\ earlier_runs = << >>
    /\ strings \in UNION {
            [1..n -> { StringsCsvEntry(<< "k" >>, w, 8, m) :
                         w \in { 0, 8 }, m \in TableMarkups }] :
            n \in 1..MaxStrings }
    /\ InitProgram

SpecTable == InitTable /\ [][Next]_vars

\* ---------------------------------------------------------------- the renderer alone

\* The glyphs a glyph string may hold: two plain glyphs, a glyph one unit
\* wide, the empty glyph and a glyph with the unknown flag.
GlyphInputs ==
    { GlyphInfo(3, 6, 8, 0, 0, 0),
      GlyphInfo(4, 6, 8, 0, 0, 0),
      GlyphInfo(5, 1, 8, 0, 0, 0),
      GlyphInfo(PANGO_GLYPH_EMPTY, 6, 8, 0, 0, 0),
      GlyphInfo(PANGO_GLYPH_UNKNOWN_FLAG + 3, 6, 8, 0, 0, 0) }

\* The renderer as created, no string being compiled.
InitGlyphs ==
    /\ IdleEnv
    /\ styles = << StylesCsvEntry(<< "n" >>, Sans, 12) >>
    /\ earlier_runs = << >>
    /\ strings = << >>
    /\ InitProgram

\* The renderer's fields as one record.
TheRenderer == Renderer(used_glyphs, typeset_glyphs, cur_face, cur_source_offset)

SetRenderer(rs) ==
    /\ used_glyphs' = rs.used_glyphs
    /\ typeset_glyphs' = rs.typeset_glyphs
    /\ cur_face' = rs.cur_face
    /\ cur_source_offset' = rs.cur_source_offset

\* render_page starts a page: arena_clear(&renderer->typeset_glyphs).
ClearTypesetGlyphs ==
    /\ typeset_glyphs # << >>
    /\ typeset_glyphs' = << >>
    /\ UNCHANGED << input_vars, env_vars, main_vars, pc, scan_vars, used_glyphs, cur_face,
                    cur_source_offset, log_vars >>

\* The shaping engine calls prepare_run for a run of some face.
PrepareRunCallback ==
    /\ \E face \in { Sans, Mono } :
          SetRenderer(PrepareRun(TheRenderer, [face |-> face, offset |-> 0]))
    /\ UNCHANGED << input_vars, env_vars, main_vars, pc, scan_vars, log_vars >>

\* The shaping engine calls draw_glyphs with the glyph string of the run.
DrawGlyphsCallback ==
    /\ cur_face # << >>
    /\ \E n \in 1..MaxGlyphs : \E glyphs \in [1..n -> GlyphInputs] :
          /\ Len(typeset_glyphs) + n <= MaxTypeset
          /\ SetRenderer(DrawGlyphs(TheRenderer, glyphs))
          /\ shaped_glyphs' = shaped_glyphs \cup ShapedGlyphs(cur_face, glyphs)
    /\ UNCHANGED << input_vars, env_vars, main_vars, pc, scan_vars, layout_calls >>

NextGlyphs ==
    \/ ClearTypesetGlyphs
    \/ PrepareRunCallback
    \/ DrawGlyphsCallback

SpecGlyphs == InitGlyphs /\ [][NextGlyphs]_vars

\* ---------------------------------------------------------------- pack_atlas_glyphs

\* Pixels of padding kept around a glyph's bounds in its bitmap rectangle.
GLYPH_PADDING == 2

\* The rectangle of a glyph inside its bitmap: min inclusive, max exclusive.
AtlasGlyphBitmap(xmin, xmax, ymin, ymax) ==
    [ xmin |-> xmin, xmax |-> xmax, ymin |-> ymin, ymax |-> ymax ]

AtlasGlyphPosition(x, y) == [ x |-> x, y |-> y ]

AtlasGlyphHeight(index, height) == [ index |-> index, height |-> height ]

\* int32_t width = glyphs[idx].xmax - glyphs[idx].xmin, and the height.
BitmapWidth(bmp) == bmp.xmax - bmp.xmin
BitmapHeight(bmp) == bmp.ymax - bmp.ymin

RECURSIVE MaxDim(_, _, _)
\* The first loop's max_dim, from glyph i (counted from 1) on.
MaxDim(glyphs, i, max_dim) ==
    IF i > Len(glyphs) THEN max_dim
    ELSE LET width == BitmapWidth(glyphs[i])
             height == BitmapHeight(glyphs[i])
             m1 == IF width > max_dim THEN width ELSE max_dim
             m2 == IF height > m1 THEN height ELSE m1
         IN  MaxDim(glyphs, i + 1, m2)

\* The order array before qsort: entry i is { i, height of glyph i }; glyphs
\* are counted from 1 here.
HeightEntries(glyphs) ==
    { AtlasGlyphHeight(i, BitmapHeight(glyphs[i])) : i \in 1..Len(glyphs) }

\* The arrangements of the order array.
OrderArrays(glyphs) ==
    { order \in [1..Len(glyphs) -> HeightEntries(glyphs)] :
        \A i, j \in 1..Len(glyphs) : i # j => order[i].index # order[j].index }

\* What qsort would give with a comparator returning a->height - b->height.
HeightOrdersAscending(glyphs) ==
    { order \in OrderArrays(glyphs) :
        \A i \in 1..(Len(glyphs) - 1) : order[i].height <= order[i + 1].height }

\* Every result qsort may give with sort_cmp_atlas_glyph_height, which returns
\* b->height - a->height: heights descending, entries of equal height in any
\* order.
HeightOrders(glyphs) ==
    { order \in OrderArrays(glyphs) :
        \A i \in 1..(Len(glyphs) - 1) : order[i].height >= order[i + 1].height }

\* A first size that is not raised to the largest dimension.
FirstSizeOne(size, max_dim) == size

RECURSIVE FirstSize(_, _)
\* int32_t size = 1; while (size < max_dim) size *= 2;
FirstSize(size, max_dim) ==
    IF size < max_dim THEN FirstSize(size * 2, max_dim) ELSE size

\* pack_atlas_glyphs has been called with these glyphs: nothing computed yet.
PackEntry(glyphs) ==
    [ pc |-> "sort", glyphs |-> glyphs, order |-> << >>, size |-> 0,
      cur_x |-> 0, cur_y |-> 0, row_height |-> 0, i |-> 0,
      sorted_pos |-> << >>, out_positions |-> << >> ]

\* Up to retry_pack: the order array sorted (qsort returned order) and the
\* first canvas size.
PackSorted(p, order) ==
    [ p EXCEPT !.pc = "place", !.order = order,
               !.size = FirstSize(1, MaxDim(p.glyphs, 1, 0)) ]

\* One iteration of the placing loop, for the glyph order[i]; a glyph that
\* does not fit below doubles the size and starts the loop again.  sorted_pos
\* holds the entries written in this pass: those of an abandoned pass are
\* written again before they are read.
PackPlaced(p) ==
    LET idx == p.order[p.i + 1].index
        width == BitmapWidth(p.glyphs[idx])
        height == BitmapHeight(p.glyphs[idx])
        wrap == p.cur_x + width > p.size
        cur_x == IF wrap THEN 0 ELSE p.cur_x
        cur_y == IF wrap THEN p.cur_y + p.row_height ELSE p.cur_y
        row_height == IF wrap THEN 0 ELSE p.row_height
    IN  IF cur_y + height > p.size
        THEN [ p EXCEPT !.size = p.size * 2, !.cur_x = 0, !.cur_y = 0,
                        !.row_height = 0, !.i = 0, !.sorted_pos = << >> ]
        ELSE [ p EXCEPT !.cur_x = cur_x + width, !.cur_y = cur_y,
                        !.row_height = IF height > row_height THEN height
                                       ELSE row_height,
                        !.i = p.i + 1,
                        !.sorted_pos = Append(p.sorted_pos,
                                              AtlasGlyphPosition(cur_x, cur_y)) ]

\* The last loop: out_positions[order[i].index] = sorted_pos[i]; return size.
PackReturned(p) ==
    [ p EXCEPT !.pc = "done",
               !.out_positions =
                   [ idx \in 1..Len(p.glyphs) |->
                       p.sorted_pos[CHOOSE i \in 1..Len(p.glyphs) :
                                        p.order[i].index = idx] ] ]

RECURSIVE PackPlaceAll(_)
\* The placing loop run to its end.
PackPlaceAll(p) ==
    IF p.i < Len(p.glyphs) THEN PackPlaceAll(PackPlaced(p)) ELSE p

\* Every outcome of a whole call of pack_atlas_glyphs, one for each order
\* qsort may return: out_positions and the returned size.
PackAtlasGlyphs(glyphs) ==
    { PackReturned(PackPlaceAll(PackSorted(PackEntry(glyphs), order))) :
        order \in HeightOrders(glyphs) }

RECURSIVE Gcd(_, _)
Gcd(a, b) == IF b = 0 THEN a ELSE Gcd(b, a % b)

\* (float)a / (float)b for ints of a few digits and b > 0: the quotient, held
\* as a fraction in lowest terms, so that equal floats are equal values.
FloatDiv(a, b) ==
    LET g == Gcd(IF a < 0 THEN 0 - a ELSE a, b)
    IN  [ num |-> a \div g, den |-> b \div g ]

AtlasGlyphUv(u0, v0, u1, v1) == [ u0 |-> u0, v0 |-> v0, u1 |-> u1, v1 |-> v1 ]

\* The UV table bake_used_glyphs_to_atlas computes from the bitmaps, the
\* packed positions and the canvas size.
BakedUvs(bitmaps, packed_pos, atlas_dim) ==
    [ i \in 1..Len(bitmaps) |->
        LET basex == packed_pos[i].x
            basey == packed_pos[i].y
            ow == BitmapWidth(bitmaps[i])
            oh == BitmapHeight(bitmaps[i])
        IN  AtlasGlyphUv(FloatDiv(basex + GLYPH_PADDING, atlas_dim),
                         FloatDiv(basey + GLYPH_PADDING, atlas_dim),
                         FloatDiv(((basex + GLYPH_PADDING) + ow) - 4, atlas_dim),
                         FloatDiv(((basey + GLYPH_PADDING) + oh) - 4, atlas_dim)) ]

\* The widths and heights of the bitmaps packed on their own: below, at and
\* above twice the padding.
BitmapDims == { 1, 4, 9 }

\* A bitmap rectangle of the given width and height.
BitmapOf(w, h) == AtlasGlyphBitmap(30, 30 + w, 30, 30 + h)

BitmapInputs ==
    UNION { [1..n -> { BitmapOf(w, h) : w \in BitmapDims, h \in BitmapDims }] :
              n \in 0..MaxBitmaps }

\* bake_used_glyphs_to_atlas is about to call pack_atlas_glyphs.
InitPack ==
    /\ styles = << StylesCsvEntry(<< "n" >>, Sans, 12) >>
    /\ earlier_runs = << >>
    /\ strings = << >>
    /\ InitProgram
    /\ pack \in { PackEntry(glyphs) : glyphs \in BitmapInputs }
    /\ glyph_uvs = << >>
    /\ index_buffer = [ pc |-> "idle" ]
    /\ IdleBuild

pack_vars ==
    << input_vars, main_vars, pc, scan_vars, renderer_vars, log_vars, index_vars,
       build_vars >>

\* The first loop, qsort and the first size.
PackSort ==
    /\ pack.pc = "sort"
    /\ \E order \in HeightOrders(pack.glyphs) : pack' = PackSorted(pack, order)
    /\ UNCHANGED << pack_vars, glyph_uvs >>

\* One iteration of the placing loop.
PackPlace ==
    /\ pack.pc = "place"
    /\ pack.i < Len(pack.glyphs)
    /\ pack' = PackPlaced(pack)
    /\ UNCHANGED << pack_vars, glyph_uvs >>

\* The placing loop is over: positions copied out, size returned.
PackReturn ==
    /\ pack.pc = "place"
    /\ pack.i >= Len(pack.glyphs)
    /\ pack' = PackReturned(pack)
    /\ UNCHANGED << pack_vars, glyph_uvs >>

\* bake_used_glyphs_to_atlas goes on with the positions and the size.
BakeUvs ==
    /\ pack.pc = "done"
    /\ glyph_uvs = << >>
    /\ glyph_uvs' = << BakedUvs(pack.glyphs, pack.out_positions, pack.size) >>
    /\ UNCHANGED << pack_vars, pack >>

NextPack ==
    \/ PackSort
    \/ PackPlace
    \/ PackReturn
    \/ BakeUvs

SpecPack == InitPack /\ [][NextPack]_vars

\* pack_atlas_glyphs runs in one thread that nothing suspends.
FairSpecPack == SpecPack /\ WF_vars(NextPack)

\* ---------------------------------------------------------------- index buffer

\* size_t textc_index_buffer_size(uint32_t vertex_count)
textc_index_buffer_size(vertex_count) == (vertex_count \div 4) * 6

\* What a uint16_t array holds before it is written: some word.
UninitializedWords == { 0, 43690, 65535 }

\* The count a consumer may pass to textc_fill_index_buffer for a buffer of
\* textc_index_buffer_size(vertex_count) entries: the number of vertices or
\* the number of indices.
FillCounts(vertex_count) ==
    { vertex_count, textc_index_buffer_size(vertex_count) }

\* buffer[i] = value, for i counted from 0; outside the buffer the write is
\* an overrun and the buffer itself stays as it is.
WriteIndex(b, i, value) ==
    IF i < Len(b.buffer)
    THEN [ b EXCEPT !.buffer[i + 1] = value ]
    ELSE [ b EXCEPT !.overrun = TRUE ]

\* The body of the loop of textc_fill_index_buffer and its i += 4.
FilledQuad(b) ==
    LET b0 == WriteIndex(b, b.i, b.v + 0)
        b1 == WriteIndex(b0, b.i + 1, b.v + 1)
        b2 == WriteIndex(b1, b.i + 2, b.v + 2)
        b3 == WriteIndex(b2, b.i + 3, b.v + 2)
        b4 == WriteIndex(b3, b.i + 4, b.v + 3)
        b5 == WriteIndex(b4, b.i + 5, b.v + 0)
    IN  [ b5 EXCEPT !.i = b.i + 4 ]

\* A consumer holds the vertices of some quads read from a page.
InitIndex ==
    /\ styles = << StylesCsvEntry(<< "n" >>, Sans, 12) >>
    /\ earlier_runs = << >>
    /\ strings = << >>
    /\ InitProgram
    /\ pack = [ pc |-> "idle" ]
    /\ glyph_uvs = << >>
    /\ IdleBuild
    /\ \E k \in 0..MaxQuads :
          index_buffer = [ pc |-> "alloc", vertex_count |-> 4 * k, count |-> 0,
                           buffer |-> << >>, i |-> 0, v |-> 0,
                           overrun |-> FALSE ]

fill_vars ==
    << input_vars, main_vars, pc, scan_vars, renderer_vars, log_vars, atlas_vars,
       build_vars >>

\* The consumer allocates textc_index_buffer_size(vertex_count) entries and
\* calls textc_fill_index_buffer: uint16_t v = 0; i = 0.
AllocIndexBuffer ==
    /\ index_buffer.pc = "alloc"
    /\ \E word \in UninitializedWords :
       \E count \in FillCounts(index_buffer.vertex_count) :
          index_buffer' =
              [ index_buffer EXCEPT
                  !.pc = "fill",
                  !.count = count,
                  !.buffer = [ j \in 1..textc_index_buffer_size(
                                          index_buffer.vertex_count) |-> word ] ]
    /\ UNCHANGED fill_vars

\* One iteration of the loop.
FillQuad ==
    /\ index_buffer.pc = "fill"
    /\ index_buffer.i < index_buffer.count
    /\ index_buffer' = FilledQuad(index_buffer)
    /\ UNCHANGED fill_vars

\* The loop ends and textc_fill_index_buffer returns.
FillReturn ==
    /\ index_buffer.pc = "fill"
    /\ index_buffer.i >= index_buffer.count
    /\ index_buffer' = [ index_buffer EXCEPT !.pc = "done" ]
    /\ UNCHANGED fill_vars

NextIndex ==
    \/ AllocIndexBuffer
    \/ FillQuad
    \/ FillReturn

SpecIndex == InitIndex /\ [][NextIndex]_vars

\* ---------------------------------------------------------------- input files

\* The ASCII characters from the space (32) to the digit 9 (57).
AsciiTable ==
    << " ", "!", "\"", "#", "$", "%", "&", "'", "(", ")", "*", "+", ",", "-",
       ".", "/", "0", "1", "2", "3", "4", "5", "6", "7", "8", "9" >>

IsIn(c, table) == \E i \in 1..Len(table) : table[i] = c

\* The byte of a character of a file: a line feed, a bracket, a lowercase
\* letter or a character of the table.
AsciiOf(c) ==
    IF c = "\n" THEN 10
    ELSE IF c = "[" THEN 91
    ELSE IF c = "]" THEN 93
    ELSE IF IsIn(c, Letters) THEN ByteOf(c)
    ELSE 31 + (CHOOSE i \in 1..Len(AsciiTable) : AsciiTable[i] = c)

\* The character of a byte of a file.
CharOf(byte) ==
    IF byte = 10 THEN "\n"
    ELSE IF byte = 91 THEN "["
    ELSE IF byte = 93 THEN "]"
    ELSE IF byte > 96 THEN Letters[byte - 96]
    ELSE AsciiTable[byte - 31]

AsciiBytes(text) == [ i \in 1..Len(text) |-> AsciiOf(text[i]) ]

RECURSIVE Decimal(_)
\* The decimal text atoi reads the number n from.
Decimal(n) ==
    IF n < 10 THEN << AsciiTable[17 + n] >>
    ELSE Decimal(n \div 10) \o << AsciiTable[17 + (n % 10)] >>

RECURSIVE CsvLine(_)
\* A line of a csv file whose items need no quotes.
CsvLine(items) ==
    IF Len(items) = 1 THEN Head(items) \o << "\n" >>
    ELSE Head(items) \o << "," >> \o CsvLine(Tail(items))

\* The text of styles.csv that parse_styles_csv_row reads the table from.
StylesCsvText(table) ==
    CsvLine(<< << "n", "a", "m", "e" >>, << "f", "a", "c", "e" >>,
               << "s", "i", "z", "e" >>, << "l", "h" >> >>)
    \o Flatten([ i \in 1..Len(table) |->
                   CsvLine(<< table[i].name, table[i].style.face,
                              Decimal(table[i].style.size),
                              Decimal(table[i].style.lineheight) >>) ])

\* The text of strings.csv that parse_strings_csv_header and
\* parse_strings_csv_row read the languages and the table from.
StringsCsvText(table) ==
    CsvLine(<< << "k", "e", "y" >>, << "w" >>, << "h" >> >> \o Languages)
    \o Flatten([ i \in 1..Len(table) |->
                   CsvLine(<< table[i].key, Decimal(table[i].width),
                              Decimal(table[i].height) >>
                           \o LanguageTexts(table[i])) ])

\* parse_input_files: ret.hash, folded over styles.csv and then strings.csv.
InputHash(styles_table, strings_table) ==
    HashDjb2Acc(HashDjb2Acc(W32(5381), AsciiBytes(StylesCsvText(styles_table))),
                AsciiBytes(StringsCsvText(strings_table)))

\* ---------------------------------------------------------------- the atlas and its cache

GlyphId(face, id) == [ face |-> face, uid |-> NewGlyphUid(face, id), id |-> id ]

RECURSIVE StrcmpIsLess(_, _)
\* strcmp(a, b) < 0
StrcmpIsLess(a, b) ==
    IF b = << >> THEN FALSE
    ELSE IF a = << >> THEN TRUE
    ELSE IF Head(a) # Head(b) THEN AsciiOf(Head(a)) < AsciiOf(Head(b))
    ELSE StrcmpIsLess(Tail(a), Tail(b))

\* sort_cmp_glyph_id(a, b) < 0: by face name, then by glyph index.
GlyphIdIsBefore(a, b) ==
    \/ StrcmpIsLess(a.face, b.face)
    \/ (StrcmpIsZero(a.face, b.face) /\ a.id < b.id)

\* qsort of used_glyphs with sort_cmp_glyph_id; no two entries compare equal.
SortedGlyphIds(used) ==
    [ k \in 1..Len(used) |->
        used[CHOOSE i \in 1..Len(used) :
                Cardinality({ j \in 1..Len(used) :
                                GlyphIdIsBefore(used[j], used[i]) }) = k - 1] ]

\* The bytes a uint32_t has in memory, lowest first.
BytesOfWord(w) == << w.l % 256, w.l \div 256, w.h % 256, w.h \div 256 >>

\* The bytes hash_djb2 visits from &used_glyphs[0].uid with count
\* used_glyph_count and stride sizeof(GlyphId): the first byte of each uid.
GlyphSetHashBytes(used) == [ i \in 1..Len(used) |-> BytesOfWord(used[i].uid)[1] ]

GlyphSetHash(used) == hash_djb2(GlyphSetHashBytes(used))

\* The bounds msdfgen reports for a glyph, times 64 and rounded outwards.
MsdfBounds(g) ==
    [ x0 |-> 0, y0 |-> 0,
      x1 |-> (4 + (g.id % 3)) + (IF g.face = Mono THEN 1 ELSE 0),
      y1 |-> (5 + (g.id % 5)) + (IF g.face = Mono THEN 1 ELSE 0) ]

\* The rectangle render_glyph_msdf_bitmaps gives a glyph.
RenderedBitmap(g) ==
    LET b == MsdfBounds(g)
    IN  AtlasGlyphBitmap((32 + b.x0) - GLYPH_PADDING, (32 + b.x1) + GLYPH_PADDING,
                         (32 + b.y0) - GLYPH_PADDING, (32 + b.y1) + GLYPH_PADDING)

RenderedBitmaps(used) == [ i \in 1..Len(used) |-> RenderedBitmap(used[i]) ]

\* bin/atlas.png: the canvas size and where each rectangle was copied to.
AtlasImage(bitmaps, packed_pos, atlas_dim) ==
    [ dim |-> atlas_dim,
      glyphs |-> [ i \in 1..Len(bitmaps) |->
                     [ x |-> packed_pos[i].x, y |-> packed_pos[i].y,
                       w |-> BitmapWidth(bitmaps[i]),
                       h |-> BitmapHeight(bitmaps[i]) ] ] ]

\* What bake_used_glyphs_to_atlas can give for a sorted registry when nothing
\* fails: the packer's state at its return, the UV table and the image.
BakeOutcomes(used) ==
    { [ pack  |-> p,
        uvs   |-> BakedUvs(p.glyphs, p.out_positions, p.size),
        image |-> AtlasImage(p.glyphs, p.out_positions, p.size) ] :
        p \in PackAtlasGlyphs(RenderedBitmaps(used)) }

\* The cache record: csv hash, glyph hash, glyph count, UV table.
CacheRecord(csv_hash, glyph_hash, count, uvs) ==
    [ csv_hash |-> csv_hash, glyph_hash |-> glyph_hash, count |-> count,
      uvs |-> uvs ]

\* The registries of earlier builds: of a text without ink, of the text "ab",
\* of "a" set in both faces, and of a text whose glyphs have the indices 259
\* and 260.
EarlierRegistries ==
    { << >>,
      << GlyphId(Sans, 3), GlyphId(Sans, 4) >>,
      << GlyphId(Mono, 3), GlyphId(Sans, 3) >>,
      << GlyphId(Sans, 259), GlyphId(Sans, 260) >> }

\* What an earlier build may have left: its cache record, whose csv hash is
\* that of the present tables or that of another strings table, and its atlas.
EarlierBuilds(styles_table, strings_table) ==
    UNION { { [ cache |-> CacheRecord(h, GlyphSetHash(used), Len(used), o.uvs),
                atlas |-> o.image ] :
                h \in { InputHash(styles_table, strings_table),
                        InputHash(styles_table, << >>) },
                o \in BakeOutcomes(used) } :
            used \in EarlierRegistries }

\* ---------------------------------------------------------------- the encoder

\* The words of bin/strings.txtc: a uint32_t, a float, or four bytes of a
\* padded string.
U32(n) == [ t |-> "u32", v |-> n ]
F32(x) == [ t |-> "f32", v |-> x ]
Bytes4(b) == [ t |-> "bytes", v |-> b ]

\* -(len + 1) & 3
PaddingOf(len) == (4 - ((len + 1) % 4)) % 4

\* file_write_padded_string: the length byte, len characters and the zeroes
\* that fill the last word.
file_write_padded_string(string, len) ==
    LET bytes == << len >> \o AsciiBytes(SubSeq(string, 1, len))
                           \o [ i \in 1..PaddingOf(len) |-> 0 ]
    IN  [ k \in 1..(Len(bytes) \div 4) |->
            Bytes4(SubSeq(bytes, (4 * k) - 3, 4 * k)) ]

\* The search of used_glyphs for a typeset glyph's uid: the position (from 1)
\* of the first entry with that uid.  Every typeset glyph has one, so the
\* assertion idx < UINT32_MAX holds.
UsedGlyphIndex(used, uid) ==
    CHOOSE j \in 1..Len(used) :
        used[j].uid = uid /\ \A i \in 1..(j - 1) : used[i].uid # uid

\* What glyph_uvs[idx] may read past the end of a table shorter than the
\* registry.
OutOfBoundsUvs ==
    { AtlasGlyphUv(FloatDiv(0, 1), FloatDiv(0, 1), FloatDiv(0, 1), FloatDiv(0, 1)),
      AtlasGlyphUv(FloatDiv(1, 1), FloatDiv(1, 1), FloatDiv(1, 1), FloatDiv(1, 1)) }

\* glyph_uvs[idx], for idx counted from 1.
UvAt(uvs, idx, beyond) == IF idx <= Len(uvs) THEN uvs[idx] ELSE beyond

\* X(0, 0); X(0, 1); X(1, 1); X(1, 0);
EncodedGlyph(glyph, uv) ==
    << F32(glyph.x0), F32(glyph.y0), F32(uv.u0), F32(uv.v0),
       F32(glyph.x0), F32(glyph.y1), F32(uv.u0), F32(uv.v1),
       F32(glyph.x1), F32(glyph.y1), F32(uv.u1), F32(uv.v1),
       F32(glyph.x1), F32(glyph.y0), F32(uv.u1), F32(uv.v0) >>

EncodedUserTag(tag) ==
    file_write_padded_string(tag.value, tag.value_len)
    \o << U32(tag.start_idx), U32(tag.end_idx) >>

EncodedPage(page, used, uvs, beyond) ==
    << U32(Len(page.user_tags)) >>
    \o Flatten([ k \in 1..Len(page.user_tags) |-> EncodedUserTag(page.user_tags[k]) ])
    \o << U32(4 * Len(page.typeset_glyphs)) >>
    \o Flatten([ k \in 1..Len(page.typeset_glyphs) |->
                   EncodedGlyph(page.typeset_glyphs[k],
                                UvAt(uvs, UsedGlyphIndex(used, page.typeset_glyphs[k].glyph_uid),
                                     beyond)) ])

\* A string record: key, width and height of a row, then the pages of a
\* rendered string.
EncodedRecord(row, pages, used, uvs, beyond) ==
    file_write_padded_string(row.key, Len(row.key))
    \o << U32(row.width), U32(row.height), U32(Len(pages)) >>
    \o Flatten([ j \in 1..Len(pages) |-> EncodedPage(pages[j], used, uvs, beyond) ])

\* The body of the loop over the results for its counter i (from 1 here):
\* input.strings[i] and the result number i.
EncodedString(table, rendered, i, used, uvs, beyond) ==
    EncodedRecord(table[i], rendered[i], used, uvs, beyond)

\* Everything main writes to bin/strings.txtc.
EncodedFile(table, rendered, used, uvs, beyond) ==
    << U32(5526612), U32(Len(table)) >>
    \o Flatten([ i \in 1..Len(rendered) |->
                   EncodedString(table, rendered, i, used, uvs, beyond) ])

\* ---------------------------------------------------------------- a whole build

\* styles.csv of the builds: a default style and a style in the other face.
BuildStyles ==
    << StylesCsvEntry(<< "n" >>, Sans, 12), StylesCsvEntry(<< "b" >>, Mono, 12) >>

BuildMarkups == { ExampleEscapeStyles, ExampleTagPages, ExampleBlank }

\* The keys of the rows of strings.csv, by row.
RowKeys == << << "k" >>, << "k", "e", "y" >>, << "k", "e" >> >>

\* Tables of two rows: a row of width 0 before a row that is kept, and two
\* rows that are kept.
ExampleTables ==
    { << StringsCsvEntry(RowKeys[1], 0, 8, ExampleEscapeStyles),
         StringsCsvEntry(RowKeys[2], 8, 8, ExampleTagPages) >>,
      << StringsCsvEntry(RowKeys[1], 8, 8, ExampleTagPages),
         StringsCsvEntry(RowKeys[2], 8, 8, ExampleEscapeStyles) >> }

\* strings.csv of the builds: one to MaxRows rows, of width 8 or 0, and the
\* example tables.
BuildTables ==
    UNION { { [ i \in 1..n |-> StringsCsvEntry(RowKeys[i], ws[i], 8, ms[i]) ] :
                ws \in [1..n -> { 0, 8 }], ms \in [1..n -> BuildMarkups] } :
            n \in 1..MaxRows }
    \cup ExampleTables

\* What the command line may be: no argument, a language of the header, a
\* language that is not in the header.
CommandLines == { << >>, << << "e", "n" >> >>, << << "x", "x" >> >> }

\* bin/strings.txtc as an earlier build of an empty table left it.
EarlierStringsFile == << U32(5526612), U32(0) >>

\* The program starts in a directory that holds styles.csv and strings.csv
\* and either nothing else or the files of an earlier build.
InitBuild ==
    /\ styles = BuildStyles
    /\ strings \in BuildTables
    /\ earlier_runs = << >>
    /\ pc = "start"
    /\ InitLocals
    /\ pack = [ pc |-> "idle" ]
    /\ glyph_uvs = << >>
    /\ index_buffer = [ pc |-> "idle" ]
    /\ argv \in CommandLines
    /\ input = [ hash |-> W32(0), cached_hash_matched |-> FALSE, parsed |-> FALSE ]
    /\ \/ /\ cache_file = << >>
          /\ strings_file = << >>
          /\ atlas_file = << >>
       \/ \E earlier \in EarlierBuilds(styles, strings) :
             /\ cache_file = << earlier.cache >>
             /\ strings_file = << EarlierStringsFile >>
             /\ atlas_file = << earlier.atlas >>
    /\ exit_status = "running"
    /\ rasterizer_calls = << >>

shaping_vars == << main_vars, scan_vars, renderer_vars, log_vars >>

\* main returns, or the program is ended by a signal.
Exit(status) ==
    /\ pc' = "exit"
    /\ exit_status' = status

\* if (argc < 2) { usage; return 1; }
Usage ==
    /\ pc = "start"
    /\ Len(argv) < 1
    /\ Exit("1")
    /\ UNCHANGED << input_vars, shaping_vars, atlas_vars, index_vars, argv, input,
                    file_vars, rasterizer_calls >>

\* A variant of CachedHashMatched that never finds the inputs unchanged.
CachedHashNeverMatched(old_hash, hash) == FALSE

\* old_hash == ret.hash
CachedHashMatched(old_hash, hash) == old_hash = hash

\* parse_input_files, and main's return when the cached hash matched: the
\* hash of both files is computed and written over the csv hash of an
\* existing cache file; the tables are parsed unless the old hash matched.
ParseInputFiles ==
    /\ pc = "start"
    /\ Len(argv) >= 1
    /\ LET hash == InputHash(styles, strings)
           matched == /\ cache_file # << >>
                      /\ CachedHashMatched(cache_file[1].csv_hash, hash)
       IN  /\ cache_file' = IF cache_file = << >> THEN << >>
                            ELSE << [ cache_file[1] EXCEPT !.csv_hash = hash ] >>
           /\ input' = [ hash |-> hash, cached_hash_matched |-> matched,
                         parsed |-> ~matched ]
           /\ IF matched THEN Exit("0")
              ELSE pc' = "lang" /\ UNCHANGED exit_status
    /\ UNCHANGED << input_vars, shaping_vars, atlas_vars, index_vars, argv,
                    strings_file, atlas_file, rasterizer_calls >>

\* The search of input.languages for argv[1]; return 1 when it is not there.
LanguageLookup ==
    /\ pc = "lang"
    /\ IF \E i \in 1..Len(Languages) : StrcmpIsZero(Languages[i], argv[1])
       THEN pc' = "main" /\ UNCHANGED exit_status
       ELSE Exit("1")
    /\ UNCHANGED << input_vars, shaping_vars, atlas_vars, index_vars, argv, input,
                    file_vars, rasterizer_calls >>

\* render_page cannot get memory: arena_alloc panics.
ShapingPanics ==
    /\ pc = "render"
    /\ Exit("SIGTRAP")
    /\ UNCHANGED << input_vars, shaping_vars, atlas_vars, index_vars, argv, input,
                    file_vars, rasterizer_calls >>

\* A variant of ShapingDone that holds between any two strings of the loop.
ShapingDoneEarly == pc = "main"

\* The shaping loop of main is over.
ShapingDone == pc = "main" /\ string_idx >= Len(strings)

\* stored_hash == new_hash, for an existing cache file.
StoredHashMatched ==
    /\ cache_file # << >>
    /\ cache_file[1].glyph_hash = GlyphSetHash(SortedGlyphIds(used_glyphs))

\* bake_used_glyphs_to_atlas_cached when the stored glyph hash matches: the
\* registry is sorted and the table read from the cache; reading a table of
\* no entries makes fread return 0, which FRead takes for a failure.
BakeCacheHit ==
    /\ ShapingDone
    /\ StoredHashMatched
    /\ used_glyphs' = SortedGlyphIds(used_glyphs)
    /\ IF cache_file[1].count = 0
       THEN Exit("SIGTRAP") /\ UNCHANGED glyph_uvs
       ELSE /\ glyph_uvs' = << cache_file[1].uvs >>
            /\ pc' = "write"
            /\ UNCHANGED exit_status
    /\ UNCHANGED << input_vars, main_vars, scan_vars, typeset_glyphs, cur_face,
                    cur_source_offset, log_vars, pack, index_vars, argv, input,
                    file_vars, rasterizer_calls >>

\* bake_used_glyphs_to_atlas_cached otherwise, when nothing fails: every
\* glyph of the sorted registry is rasterized, the rectangles are packed, the
\* atlas is saved and the cache file written anew.
BakeAtlas ==
    /\ ShapingDone
    /\ ~StoredHashMatched
    /\ LET used == SortedGlyphIds(used_glyphs)
       IN  /\ used_glyphs' = used
           /\ rasterizer_calls' = rasterizer_calls \o used
           /\ \E o \in BakeOutcomes(used) :
                 /\ pack' = o.pack
                 /\ glyph_uvs' = << o.uvs >>
                 /\ atlas_file' = << o.image >>
                 /\ cache_file' = << CacheRecord(input.hash, GlyphSetHash(used),
                                                 Len(used), o.uvs) >>
    /\ pc' = "write"
    /\ UNCHANGED << input_vars, main_vars, scan_vars, typeset_glyphs, cur_face,
                    cur_source_offset, log_vars, index_vars, argv, input,
                    strings_file, exit_status >>

\* bake_used_glyphs_to_atlas_cached otherwise, when a run of msdfgen gives
\* no bounds or no bitmap: the assertion on its output fails.
RasterizerFails ==
    /\ ShapingDone
    /\ ~StoredHashMatched
    /\ LET used == SortedGlyphIds(used_glyphs)
       IN  /\ used_glyphs' = used
           /\ \E k \in 1..Len(used) :
                 rasterizer_calls' = rasterizer_calls \o SubSeq(used, 1, k)
    /\ Exit("SIGABRT")
    /\ UNCHANGED << input_vars, main_vars, scan_vars, typeset_glyphs, cur_face,
                    cur_source_offset, log_vars, atlas_vars, index_vars, argv,
                    input, file_vars >>

\* bake_used_glyphs_to_atlas_cached otherwise, when pack_atlas_glyphs gets
\* no memory for its arena: arena_create panics.
PackPanics ==
    /\ ShapingDone
    /\ ~StoredHashMatched
    /\ LET used == SortedGlyphIds(used_glyphs)
       IN  /\ used_glyphs' = used
           /\ rasterizer_calls' = rasterizer_calls \o used
    /\ pack' = PackEntry(RenderedBitmaps(SortedGlyphIds(used_glyphs)))
    /\ Exit("SIGTRAP")
    /\ UNCHANGED << input_vars, main_vars, scan_vars, typeset_glyphs, cur_face,
                    cur_source_offset, log_vars, glyph_uvs, index_vars, argv,
                    input, file_vars >>

\* The encoder: bin/strings.txtc is opened with "wb+" and written; return 0.
WriteOutput ==
    /\ pc = "write"
    /\ \E beyond \in OutOfBoundsUvs :
          strings_file' = << EncodedFile(strings, results, used_glyphs,
                                         glyph_uvs[1], beyond) >>
    /\ Exit("0")
    /\ UNCHANGED << input_vars, shaping_vars, atlas_vars, index_vars, argv, input,
                    cache_file, atlas_file, rasterizer_calls >>

NextBuild ==
    \/ Usage
    \/ ParseInputFiles
    \/ LanguageLookup
    \/ BeginString
    \/ TagOpen
    \/ EscapedOpener
    \/ CopyChar
    \/ SkipTagChar
    \/ PopStyle
    \/ SetStyle
    \/ PageBreak
    \/ EndUserTag
    \/ StartUserTag
    \/ EndOfInput
    \/ RenderPage
    \/ RenderLastPage
    \/ ShapingPanics
    \/ BakeCacheHit
    \/ BakeAtlas
    \/ RasterizerFails
    \/ PackPanics
    \/ WriteOutput

SpecBuild == InitBuild /\ [][NextBuild]_vars

\* ================================================================ claims

\* The layouts handed to the shaping engine for string number i (from 0).
CallsOf(i) == SelectSeq(layout_calls, LAMBDA c : c.string = i)

\* A string of main's loop has been compiled and returned.
Compiled(i) == string_idx > i

\* The byte offsets a style attribute range covers.
RangeOffsets(a) == a.start..(a.end - 1)

\* The ranges of list are pairwise disjoint and cover exactly [0, len).
CoversExactly(list, len) ==
    /\ \A i, j \in 1..Len(list) :
          i # j => RangeOffsets(list[i]) \cap RangeOffsets(list[j]) = {}
    /\ UNION { RangeOffsets(list[i]) : i \in 1..Len(list) } = 0..(len - 1)

\* C1: for every page handed to the shaping engine, by a page break or at
\* the end of the markup, the style attribute ranges are pairwise
\* non-overlapping and their union is exactly [0, len(page text)).
C1_StyleRangesCoverPage ==
    /\ pc = "render" => CoversExactly(attr_list, Len(page_write))
    /\ \A c \in 1..Len(layout_calls) :
          CoversExactly(layout_calls[c].attr_list, Len(layout_calls[c].text))

\* C1 witness: a second page whose text is covered by two ranges of
\* different styles has been handed to the shaping engine.
C1_Witness ==
    \E c \in 1..Len(layout_calls) :
        LET call == layout_calls[c]
        IN  /\ call.page = 1
            /\ Len(call.attr_list) = 2
            /\ call.attr_list[1].style # call.attr_list[2].style
            /\ Len(call.text) = 2

\* A user tag span as (value, start, end).
Span(tag) == << tag.value, tag.start_idx, tag.end_idx >>

Spans(tags) == { Span(tags[t]) : t \in 1..Len(tags) }

\* The page of text "abcdef" with exactly the spans x -> [0,6), y -> [2,4).
IsNestedTagsPage(call) ==
    /\ call.text = << "a", "b", "c", "d", "e", "f" >>
    /\ Len(call.user_tags) = 2
    /\ Spans(call.user_tags) = { << << "x" >>, 0, 6 >>, << << "y" >>, 2, 4 >> }

\* C2 as stated: compiling "[x]ab[y]cd[/]ef[/]" yields the plain text
\* "abcdef" and exactly the two spans x -> [0,6) and y -> [2,4).
C2_BareTagsExample ==
    \A c \in 1..Len(layout_calls) :
        strings[layout_calls[c].string + 1].text = ExampleBareTags
            => IsNestedTagsPage(layout_calls[c])

\* The scan is at the ']' that ends a tag which is not a style tag.
AtPlainTagEnd == pc = "scan" /\ MoreInput /\ AtTagEnd /\ ~in_style_tag

\* C2, amended: a user tag is written [#tagname] and closed by [#/].  A tag
\* [#tagname] read when the page's output offset is s goes on the stack of
\* open tags as (tagname, s); a [#/] read when the offset is e takes the tag
\* opened last off the stack and appends the span (tagname, s, e) to the
\* page's tags; and compiling "[#x]ab[#y]cd[#/]ef[#/]" yields the text
\* "abcdef" with exactly the spans x -> [0,6) and y -> [2,4).
C2_UserTagSpans ==
    /\ [][ (AtPlainTagEnd /\ TagValue \notin { << >>, << "." >>, << "/" >> })
            => /\ user_tag_stack' = Append(user_tag_stack,
                     [value |-> TagValue, value_len |-> Len(TagValue),
                      start_idx |-> Len(page_write), end_idx |-> 0])
               /\ user_tags' = user_tags ]_vars
    /\ [][ (AtPlainTagEnd /\ TagValue = << "/" >> /\ user_tag_stack # << >>)
            => /\ user_tags' = Append(user_tags,
                     [Last(user_tag_stack) EXCEPT !.end_idx = Len(page_write)])
               /\ user_tag_stack' = Front(user_tag_stack) ]_vars
    /\ [](\A c \in 1..Len(layout_calls) :
            strings[layout_calls[c].string + 1].text = ExampleNestedTags
                => IsNestedTagsPage(layout_calls[c]))

\* C2 witness: "[#x]ab[#y]cd[#/]ef[#/]" has been compiled to its page.
C2_Witness ==
    /\ strings[1].text = ExampleNestedTags
    /\ Compiled(0)
    /\ Len(CallsOf(0)) = 1
    /\ Len(CallsOf(0)[1].user_tags) = 2

\* The markup has the three characters "[[#" at offset p.
EscapeAt(p) ==
    /\ CharAt(content_base, p) = "["
    /\ CharAt(content_base, p + 1) = "["
    /\ CharAt(content_base, p + 2) = "#"

\* The step that reads one character of a "[[#" leaves the tag state alone
\* and writes '[' for the first character, nothing for the second and '#'
\* for the third.
EscapeStepIsLiteral ==
    /\ EscapeAt(page_read)
        => page_write' = Append(page_write, "[") /\ tag_start' = tag_start
    /\ EscapeAt(page_read - 1)
        => page_write' = page_write /\ tag_start' = tag_start
    /\ EscapeAt(page_read - 2)
        => page_write' = Append(page_write, "#") /\ tag_start' = tag_start

\* C3 as stated: every occurrence of "[[#" in markup contributes exactly
\* the two characters "[#" to the page's plain text and opens no tag.
C3_EveryEscapeIsLiteral ==
    [][ (pc = "scan" /\ MoreInput) => EscapeStepIsLiteral ]_vars

\* The page of "a[[#b]c": text "a[#b]c", no tags.
IsEscapePage(call) ==
    /\ call.text = << "a", "[", "#", "b", "]", "c" >>
    /\ call.user_tags = << >>

\* C3, amended: every occurrence of "[[#" that is read outside a tag
\* contributes exactly the two characters "[#" to the page's plain text and
\* opens no tag (inside a tag it contributes nothing and opens none); and
\* compiling "a[[#b]c" yields one page of text "a[#b]c" with no tags.
C3_EscapeOutsideTagIsLiteral ==
    /\ [][ (pc = "scan" /\ MoreInput /\ tag_start = NULL)
            => EscapeStepIsLiteral ]_vars
    /\ [][ (pc = "scan" /\ MoreInput /\ tag_start # NULL
              /\ (EscapeAt(page_read) \/ EscapeAt(page_read - 1)
                    \/ EscapeAt(page_read - 2)))
            => page_write' = page_write /\ tag_start' = tag_start ]_vars
    /\ [](\A i \in 1..Len(strings) :
            (strings[i].text = ExampleEscape /\ Compiled(i - 1))
                => /\ Len(CallsOf(i - 1)) = 1
                   /\ IsEscapePage(CallsOf(i - 1)[1])
                   /\ user_tag_stack = << >>)

\* C3 witness: "a[[#b]c" has been compiled.
C3_Witness ==
    /\ strings[1].text = ExampleEscape
    /\ Compiled(0)
    /\ IsEscapePage(CallsOf(0)[1])

\* The scan is at the ']' of a style tag "[#-...]" that started at this "[#-".
AtStyleTagEnd ==
    /\ pc = "scan" /\ MoreInput /\ AtTagEnd /\ in_style_tag
    /\ SubSeq(content_base, tag_start - 2, tag_start) = << "[", "#", "-" >>

\* The rows of the styles table (from 0) whose name is exactly the tag.
ExactStyles == { i \in 0..(Len(styles) - 1) : styles[i + 1].name = TagValue }

\* C4 (with the style tag written "[#-name]", the form the scanner reads as
\* a style tag): a style tag switches the current style to the StyleDef whose
\* name is exactly equal to name and pushes the previous current style on
\* the history; when no StyleDef has exactly that name, the current style
\* and the history are left unchanged.
C4_StyleTagExactMatch ==
    [][ (AtStyleTagEnd /\ tag_len # 0)
         => IF ExactStyles # {}
            THEN /\ cur_style' \in ExactStyles
                 /\ style_history' = Append(style_history, cur_style)
            ELSE /\ cur_style' = cur_style
                 /\ style_history' = style_history ]_vars

\* The scan is at the ']' of the token "[#]".
AtEmptyTagEnd ==
    /\ pc = "scan" /\ MoreInput /\ AtTagEnd /\ tag_len = 0
    /\ SubSeq(content_base, tag_start - 1, tag_start) = << "[", "#" >>

\* The step pops the style history: the popped style becomes current.
PopsStyleHistory ==
    /\ cur_style' = Last(style_history)
    /\ style_history' = Front(style_history)

\* The step changes no style, emits no page and no text.
ChangesNothing ==
    /\ cur_style' = cur_style
    /\ style_history' = style_history
    /\ page_write' = page_write
    /\ pc' = "scan"
    /\ pages_acc' = pages_acc
    /\ layout_calls' = layout_calls

\* C5 as stated: the token "[#]" pops the style history and makes the popped
\* style current; when the history is empty "[#]" changes nothing (no style
\* change, no page emitted, no text emitted).
C5_EmptyTagPops ==
    [][ AtEmptyTagEnd
         => IF style_history # << >> THEN PopsStyleHistory
            ELSE ChangesNothing ]_vars

\* The page of "[#-bb]a[#-b]a[#-]a[#-]a" under the table n, b: the tag
\* "[#-bb]" finds no style, "[#-b]" switches from n to b, the first "[#-]"
\* switches back to n and the second finds the history empty.
IsNestedStylesPage(call) ==
    /\ call.text = << "a", "a", "a", "a" >>
    /\ call.attr_list = << [style |-> 0, start |-> 0, end |-> 1],
                           [style |-> 1, start |-> 1, end |-> 2],
                           [style |-> 0, start |-> 2, end |-> 3],
                           [style |-> 0, start |-> 3, end |-> 4] >>

\* C5, amended: the token "[#-]" pops the style history and makes the popped
\* style current; a style tag "[#-name]" that switches the style pushes the
\* style in force before it, and no other step of the scan touches the
\* current style or the history, so that after such a "[#-name]" ... "[#-]"
\* the current style is again the one in force before "[#-name]"; when the
\* history is empty "[#-]" changes nothing (no style change, no page
\* emitted, no text emitted).
C5_StylePopRestores ==
    /\ [][ (AtStyleTagEnd /\ tag_len = 0)
            => IF style_history # << >> THEN PopsStyleHistory
               ELSE ChangesNothing ]_vars
    /\ [][ (AtStyleTagEnd /\ tag_len # 0)
            => \/ cur_style' = cur_style /\ style_history' = style_history
               \/ style_history' = Append(style_history, cur_style) ]_vars
    /\ [][ (pc = "scan" /\ ~(MoreInput /\ AtTagEnd /\ in_style_tag))
            => cur_style' = cur_style /\ style_history' = style_history ]_vars
    /\ [](\A i \in 1..Len(strings) :
            (strings[i].text = ExampleNestedStyles /\ Len(styles) = 2
                /\ Compiled(i - 1))
                => /\ Len(CallsOf(i - 1)) = 1
                   /\ IsNestedStylesPage(CallsOf(i - 1)[1]))

\* C5 witness: "[#-bb]a[#-b]a[#-]a[#-]a" has been compiled under the table
\* n, b: a pop restored the style and a pop found the history empty.
C5_Witness ==
    /\ strings[1].text = ExampleNestedStyles
    /\ Len(styles) = 2
    /\ Compiled(0)
    /\ IsNestedStylesPage(CallsOf(0)[1])

\* The number of page break tokens "[#.]" in text from offset p on (a "[#"
\* right after a '[' is the escape and starts no token).
RECURSIVE PageBreakTokens(_, _)
PageBreakTokens(text, p) ==
    IF p + 4 > Len(text) THEN 0
    ELSE LET here == /\ SubSeq(text, p + 1, p + 4) = << "[", "#", ".", "]" >>
                     /\ ~(p > 0 /\ text[p] = "[")
         IN  (IF here THEN 1 ELSE 0) + PageBreakTokens(text, p + 1)

\* C6: compiling a markup string that contains k page break tokens "[#.]"
\* yields exactly k+1 pages, numbered in source order.
C6_PagesPerBreak ==
    \A i \in 1..Len(strings) :
        Compiled(i - 1)
          => /\ Len(CallsOf(i - 1)) = PageBreakTokens(strings[i].text, 0) + 1
             /\ \A c \in 1..Len(CallsOf(i - 1)) :
                   CallsOf(i - 1)[c].page = c - 1

\* C7: when a page is flushed (at a page break or at end of input) while a
\* user tag is still open, the build aborts: no layout is made, no page is
\* added and no result is returned for the string.
C7_UnterminatedTagAborts ==
    [][ (pc = "render" /\ user_tag_stack # << >>)
         => /\ pages_acc' = pages_acc
            /\ results' = results
            /\ layout_calls' = layout_calls ]_vars

\* The pages of string number i (from 0) as the markup compiler produced
\* them: text, style ranges and user tag spans of each page, in order.
CompiledPages(i) ==
    [c \in 1..Len(CallsOf(i)) |->
        [page      |-> CallsOf(i)[c].page,
         text      |-> CallsOf(i)[c].text,
         attr_list |-> CallsOf(i)[c].attr_list,
         user_tags |-> CallsOf(i)[c].user_tags]]

\* C8: markup compilation is deterministic: two rows with the same markup,
\* compiled with the same styles table, yield identical page sequences (same
\* page count, texts, style ranges and user tag spans in the same order),
\* whatever was compiled before each of them.
C8_CompileDeterministic ==
    \A i, j \in 1..Len(strings) :
        (strings[i].text = strings[j].text /\ Compiled(i - 1) /\ Compiled(j - 1))
            => CompiledPages(i - 1) = CompiledPages(j - 1)

\* C8 witness: a two-page markup with a style change has been compiled
\* first and again after a markup that ends in another style than row 0.
C8_Witness ==
    /\ Len(strings) = 3
    /\ strings[1].text = ExampleStyledPages
    /\ strings[2].text = ExampleOpenStyle
    /\ strings[3].text = ExampleStyledPages
    /\ Compiled(2)
    /\ Len(CompiledPages(2)) = 2
    /\ Len(CompiledPages(2)[2].attr_list) = 2

\* The uint32_t a UID is stored in, read back as a 64-bit value.
Widen64(uid32) == [hi |-> W32(0), lo |-> uid32]

\* C9: the UID recorded in the registry for a pair (face, native glyph
\* index) is the 64-bit value whose high 32 bits are the djb2 hash of the
\* face name and whose low 32 bits are the glyph index, and the UID of every
\* typeset glyph is the UID of a registry entry.
C9_UidIsHashAndIndex ==
    /\ \A k \in 1..Len(used_glyphs) :
          Widen64(used_glyphs[k].uid) =
              get_glyph_uid(used_glyphs[k].face, used_glyphs[k].id)
    /\ \A t \in 1..Len(typeset_glyphs) :
          \E k \in 1..Len(used_glyphs) :
              typeset_glyphs[t].glyph_uid = used_glyphs[k].uid

\* The (face, glyph index) pairs of the registry.
RegistryPairs ==
    { << used_glyphs[k].face, used_glyphs[k].id >> : k \in 1..Len(used_glyphs) }

\* The (face, glyph index) pairs shaped so far that passed the filters: not
\* the empty glyph, ink wider and taller than 1, no unknown flag.
SurvivingPairs ==
    { << g.face, g.glyph >> :
        g \in { h \in shaped_glyphs :
                  /\ h.glyph # PANGO_GLYPH_EMPTY
                  /\ h.ink_w > 1 /\ h.ink_h > 1
                  /\ h.glyph < PANGO_GLYPH_UNKNOWN_FLAG } }

\* C10: after any sequence of shaped glyphs the registry holds at most one
\* entry per (face, glyph index) pair and exactly one for every pair that
\* passed the filters at least once, and shaping removes no entry: the
\* registry after a step starts with the registry before it.
C10_RegistryDedup ==
    /\ [](Cardinality(RegistryPairs) = Len(used_glyphs))
    /\ [](RegistryPairs = SurvivingPairs)
    /\ [][ /\ Len(used_glyphs') >= Len(used_glyphs)
           /\ SubSeq(used_glyphs', 1, Len(used_glyphs)) = used_glyphs ]_vars

\* C10 witness: the same glyph index is registered for two faces, the page
\* at hand has more glyphs than the registry has entries (a pair was shaped
\* again and found), and glyphs of every filtered kind have been shaped.
C10_Witness ==
    /\ Len(used_glyphs) = 2
    /\ used_glyphs[1].id = used_glyphs[2].id
    /\ used_glyphs[1].face # used_glyphs[2].face
    /\ Len(typeset_glyphs) = 3
    /\ \E g \in shaped_glyphs : g.glyph = PANGO_GLYPH_EMPTY
    /\ \E g \in shaped_glyphs : g.ink_w <= 1
    /\ \E g \in shaped_glyphs : g.glyph > PANGO_GLYPH_UNKNOWN_FLAG

\* Glyph i's padded rectangle at its packed position.
PackedRect(i) ==
    [ x0 |-> pack.out_positions[i].x,
      x1 |-> pack.out_positions[i].x + BitmapWidth(pack.glyphs[i]),
      y0 |-> pack.out_positions[i].y,
      y1 |-> pack.out_positions[i].y + BitmapHeight(pack.glyphs[i]) ]

RectInsideCanvas(r, size) ==
    /\ 0 <= r.x0 /\ r.x1 <= size
    /\ 0 <= r.y0 /\ r.y1 <= size

RectsOverlap(r, q) ==
    /\ r.x0 < q.x1 /\ q.x0 < r.x1
    /\ r.y0 < q.y1 /\ q.y0 < r.y1

\* Every padded rectangle inside the canvas, no two overlapping.
PackingValid ==
    /\ \A i \in 1..Len(pack.glyphs) : RectInsideCanvas(PackedRect(i), pack.size)
    /\ \A i, j \in 1..Len(pack.glyphs) :
          i # j => ~RectsOverlap(PackedRect(i), PackedRect(j))

FloatLeq(a, b) == a.num * b.den <= b.num * a.den

FloatInUnit(a) == 0 <= a.num /\ a.num <= a.den

UvValid(uv) ==
    /\ FloatInUnit(uv.u0) /\ FloatInUnit(uv.v0)
    /\ FloatInUnit(uv.u1) /\ FloatInUnit(uv.v1)
    /\ FloatLeq(uv.u0, uv.u1)
    /\ FloatLeq(uv.v0, uv.v1)

PackDone == pack.pc = "done"

HoldsPadding(bmp) ==
    /\ BitmapWidth(bmp) >= 2 * GLYPH_PADDING
    /\ BitmapHeight(bmp) >= 2 * GLYPH_PADDING

IsPowerOfTwo(n) == \E k \in 0..12 : n = 2 ^ k

\* The largest single width or height among the glyphs (0 for no glyphs).
LargestDim(glyphs) ==
    LET dims == { BitmapWidth(glyphs[i]) : i \in 1..Len(glyphs) }
                  \cup { BitmapHeight(glyphs[i]) : i \in 1..Len(glyphs) }
    IN  IF dims = { } THEN 0 ELSE CHOOSE d \in dims : \A e \in dims : e <= d

SmallestPowerOfTwoFrom(n) ==
    CHOOSE s \in { 2 ^ k : k \in 0..12 } :
        s >= n /\ \A t \in { 2 ^ k : k \in 0..12 } : t >= n => s <= t

RECURSIVE ShelfFits(_, _, _, _, _, _)
\* A shelf pass over the glyphs from number i of the order on: a glyph that
\* would pass the right edge opens a new shelf below the tallest glyph of the
\* current one; the pass fits when no glyph passes the bottom edge.
ShelfFits(glyphs, order, size, i, x, shelf) ==
    IF i > Len(order) THEN TRUE
    ELSE LET g == glyphs[order[i].index]
             w == BitmapWidth(g)
             h == BitmapHeight(g)
             opens == x + w > size
             y == IF opens THEN shelf.y + shelf.h ELSE shelf.y
             sh == IF opens THEN 0 ELSE shelf.h
         IN  /\ y + h <= size
             /\ ShelfFits(glyphs, order, size, i + 1,
                          (IF opens THEN 0 ELSE x) + w,
                          [ y |-> y, h |-> IF h > sh THEN h ELSE sh ])

PassFits(size) ==
    ShelfFits(pack.glyphs, pack.order, size, 1, 0, [ y |-> 0, h |-> 0 ])

HeightDescending(order) ==
    \A i \in 1..(Len(order) - 1) : order[i].height >= order[i + 1].height

ReturnedSizeIsFirstFit ==
    /\ IsPowerOfTwo(pack.size)
    /\ pack.size >= LargestDim(pack.glyphs)
    /\ HeightDescending(pack.order)
    /\ pack.size >= SmallestPowerOfTwoFrom(LargestDim(pack.glyphs))
    /\ PassFits(pack.size)
    /\ \A k \in 0..12 :
          (/\ 2 ^ k >= SmallestPowerOfTwoFrom(LargestDim(pack.glyphs))
           /\ 2 ^ k < pack.size)
          => ~PassFits(2 ^ k)

\* C20: pack_atlas_glyphs terminates, and the size it returns is a power of
\* two, is at least the largest single width or height, and is the first size
\* of the doubling sequence, from the smallest power of two that is at least
\* that largest dimension, at which a shelf pass over the glyphs in
\* height-descending order fits.
C20_PackTerminatesWithFirstFit ==
    /\ <>PackDone
    /\ [](PackDone => ReturnedSizeIsFirstFit)

\* A call has returned a doubled size: a pass was given up, and the pass at
\* the returned size opened a second shelf.
C20_Witness ==
    /\ PackDone
    /\ Len(pack.glyphs) = 3
    /\ pack.size = 2 * SmallestPowerOfTwoFrom(LargestDim(pack.glyphs))
    /\ \E i \in 1..3 : pack.out_positions[i].y > 0

\* The six entries of quad q (from 0) of the pattern {0,1,2,2,3,0}.
QuadIndices(q) ==
    << (4 * q) + 0, (4 * q) + 1, (4 * q) + 2, (4 * q) + 2, (4 * q) + 3, (4 * q) + 0 >>

\* C16: for a vertex count of 4k the filled index buffer has 6k entries, every
\* entry is below 4k, and entries 6q..6q+5 are 4q+0, 4q+1, 4q+2, 4q+2, 4q+3,
\* 4q+0 for every quad q.
C16_IndexBufferLaw ==
    index_buffer.pc = "done" =>
        LET k == index_buffer.vertex_count \div 4
            buffer == index_buffer.buffer
        IN  /\ Len(buffer) = 6 * k
            /\ \A j \in 1..Len(buffer) : buffer[j] < 4 * k
            /\ \A q \in 0..(k - 1) :
                  SubSeq(buffer, (6 * q) + 1, (6 * q) + 6) = QuadIndices(q)

\* The cache file holds the hash of the present styles.csv and strings.csv.
StoredInputHashIsCurrent ==
    /\ cache_file # << >>
    /\ cache_file[1].csv_hash = InputHash(styles, strings)

\* The program was given an argument and is about to read its inputs.
AboutToReadInputs == pc = "start" /\ Len(argv) >= 1

\* C12: a run that finds a cache record whose input hash is the hash of the
\* present styles and strings tables parses no csv, makes no shaping call and
\* no rasterizer call, writes no output file and exits with status 0; nothing
\* happens after the exit.
C12_InputHashHitSkipsBuild ==
    /\ [][ (AboutToReadInputs /\ StoredInputHashIsCurrent)
             => /\ pc' = "exit"
                /\ exit_status' = "0"
                /\ ~input'.parsed
                /\ layout_calls' = << >>
                /\ rasterizer_calls' = << >>
                /\ strings_file' = strings_file
                /\ atlas_file' = atlas_file ]_vars
    /\ [][ pc # "exit" ]_vars

\* A run has ended on the matching input hash of a table of two rows, with
\* the files of the earlier build in place.
C12_Witness ==
    /\ pc = "exit"
    /\ exit_status = "0"
    /\ input.cached_hash_matched
    /\ Len(strings) = 2
    /\ strings_file = << EarlierStringsFile >>
    /\ layout_calls = << >>

\* C13: when the glyph-set hash of the registry is the one stored in the
\* cache, the run takes the stored table as its UV table, runs no rasterizer
\* and no packing pass; when it is not, or there is no cache, a run that
\* bakes rasterizes every glyph and packs, and the cache then holds the
\* present input hash, glyph-set hash, glyph count and the baked table.
C13_GlyphHashGatesBake ==
    /\ [][ (ShapingDone /\ StoredHashMatched)
             => /\ glyph_uvs' = << cache_file[1].uvs >>
                /\ rasterizer_calls' = rasterizer_calls
                /\ pack' = pack ]_vars
    /\ [][ (ShapingDone /\ ~StoredHashMatched /\ pc' = "write")
             => /\ rasterizer_calls' = rasterizer_calls \o used_glyphs'
                /\ pack'.pc = "done"
                /\ cache_file' =
                     << CacheRecord(InputHash(styles, strings),
                                    GlyphSetHash(used_glyphs'),
                                    Len(used_glyphs'), glyph_uvs'[1]) >> ]_vars

\* Every byte of the uid of every glyph, in the order of the registry.
UidBytes(used) == Flatten([ i \in 1..Len(used) |-> BytesOfWord(used[i].uid) ])

\* The atlas was baked in this run.
Baked == pc \in { "write", "exit" } /\ pack.pc = "done"

\* C14: the input hash written to the cache is folded over every byte of
\* styles.csv and then of strings.csv, and the glyph-set hash over every byte
\* of the uid of every glyph of the sorted registry.
C14_HashesFoldFullRange ==
    Baked =>
        /\ cache_file[1].csv_hash =
              hash_djb2(AsciiBytes(StylesCsvText(styles))
                        \o AsciiBytes(StringsCsvText(strings)))
        /\ cache_file[1].glyph_hash = hash_djb2(UidBytes(used_glyphs))

\* The language argument is missing or is not in the header of strings.csv.
UsageError ==
    \/ Len(argv) < 1
    \/ \A i \in 1..Len(Languages) : ~StrcmpIsZero(Languages[i], argv[1])

\* C17: a run whose language argument is missing or unknown changes neither
\* the binary output, nor the atlas, nor the cache record, and exits with a
\* status that is not 0.
C17_UsageErrorWritesNothing ==
    /\ [][ UsageError => /\ cache_file' = cache_file
                         /\ strings_file' = strings_file
                         /\ atlas_file' = atlas_file ]_vars
    /\ []((UsageError /\ pc = "exit") => exit_status # "0")

\* The run was ended by a panic or a failed assertion.
Aborted == exit_status \in { "SIGTRAP", "SIGABRT" }

\* C18: bin/strings.txtc is written only when render_string_entry is over
\* for every string and the UV table is there; a run that aborts leaves the
\* file as it found it.
C18_OutputWrittenLast ==
    /\ [][ strings_file' # strings_file
             => /\ string_idx = Len(strings)
                /\ glyph_uvs # << >>
                /\ Len(layout_calls) >= Len(strings)
                /\ exit_status' = "0" ]_vars
    /\ [](Aborted => strings_file \in { << >>, << EarlierStringsFile >> })

\* A run of a table of two rows has written the output over that of an
\* earlier build, with the UV table of the cache.
C18_Witness ==
    /\ pc = "exit"
    /\ exit_status = "0"
    /\ rasterizer_calls = << >>
    /\ cache_file # << >>
    /\ strings_file # << EarlierStringsFile >>
    /\ glyph_uvs = << cache_file[1].uvs >>

\* ------------------------------------------------ the documented file format

\* The words of the header of struct TextcFile: magic and version,
\* vertex_size, index_size, num_strings.
DocumentedHeaderWords == 4

\* The words main writes ahead of the string records: magic and version,
\* num_strings.
WrittenHeaderWords == 2

\* The outcome of reading a part of the file: where the reading goes on, and
\* what was read.
Decoded(pos, val) == [ ok |-> TRUE, pos |-> pos, val |-> val ]
DecodeFailed == [ ok |-> FALSE, pos |-> 0, val |-> << >> ]

\* The words p..(p + n - 1) of the file are there and are of one kind.
HasWords(f, p, n, kind) ==
    /\ p + n - 1 <= Len(f)
    /\ \A k \in p..(p + n - 1) : f[k].t = kind

\* struct str: u8 len; u8[len] contents; u8[-(len+1)&3] alignment.
ReadStr(f, p) ==
    IF ~HasWords(f, p, 1, "bytes") THEN DecodeFailed
    ELSE LET len   == f[p].v[1]
             words == (len + 1 + PaddingOf(len)) \div 4
         IN  IF ~HasWords(f, p, words, "bytes") THEN DecodeFailed
             ELSE LET bytes == Flatten([ k \in 1..words |-> f[p + k - 1].v ])
                  IN  Decoded(p + words, [ i \in 1..len |-> CharOf(bytes[i + 1]) ])

\* for vertex_count { f32 x, y, u, v; }
RECURSIVE ReadVertices(_, _, _)
ReadVertices(f, p, n) ==
    IF n = 0 THEN Decoded(p, << >>)
    ELSE IF ~HasWords(f, p, 4, "f32") THEN DecodeFailed
    ELSE LET rest == ReadVertices(f, p + 4, n - 1)
         IN  IF ~rest.ok THEN DecodeFailed
             ELSE Decoded(rest.pos,
                          << [ x |-> f[p].v, y |-> f[p + 1].v,
                               u |-> f[p + 2].v, v |-> f[p + 3].v ] >> \o rest.val)

\* for num_ranges { str name; u32 start_idx; u32 end_ix; }
RECURSIVE ReadRanges(_, _, _)
ReadRanges(f, p, n) ==
    IF n = 0 THEN Decoded(p, << >>)
    ELSE LET name == ReadStr(f, p)
         IN  IF ~name.ok \/ ~HasWords(f, name.pos, 2, "u32") THEN DecodeFailed
             ELSE LET rest == ReadRanges(f, name.pos + 2, n - 1)
                  IN  IF ~rest.ok THEN DecodeFailed
                      ELSE Decoded(rest.pos,
                                   << [ name      |-> name.val,
                                        start_idx |-> f[name.pos].v,
                                        end_idx   |-> f[name.pos + 1].v ] >> \o rest.val)

\* for num_pages { u32 num_ranges; ...; u32 vertex_count; ... }
RECURSIVE ReadPages(_, _, _)
ReadPages(f, p, n) ==
    IF n = 0 THEN Decoded(p, << >>)
    ELSE IF ~HasWords(f, p, 1, "u32") THEN DecodeFailed
    ELSE LET ranges == ReadRanges(f, p + 1, f[p].v)
         IN  IF ~ranges.ok \/ ~HasWords(f, ranges.pos, 1, "u32") THEN DecodeFailed
             ELSE LET vertices == ReadVertices(f, ranges.pos + 1, f[ranges.pos].v)
                  IN  IF ~vertices.ok THEN DecodeFailed
                      ELSE LET rest == ReadPages(f, vertices.pos, n - 1)
                           IN  IF ~rest.ok THEN DecodeFailed
                               ELSE Decoded(rest.pos,
                                            << [ ranges   |-> ranges.val,
                                                 vertices |-> vertices.val ] >>
                                            \o rest.val)

\* for num_strings { str name; u32 width; u32 height; u32 num_pages; ... }
RECURSIVE ReadStrings(_, _, _)
ReadStrings(f, p, n) ==
    IF n = 0 THEN Decoded(p, << >>)
    ELSE LET name == ReadStr(f, p)
         IN  IF ~name.ok \/ ~HasWords(f, name.pos, 3, "u32") THEN DecodeFailed
             ELSE LET pages == ReadPages(f, name.pos + 3, f[name.pos + 2].v)
                  IN  IF ~pages.ok THEN DecodeFailed
                      ELSE LET rest == ReadStrings(f, pages.pos, n - 1)
                           IN  IF ~rest.ok THEN DecodeFailed
                               ELSE Decoded(rest.pos,
                                            << [ name   |-> name.val,
                                                 width  |-> f[name.pos].v,
                                                 height |-> f[name.pos + 1].v,
                                                 pages  |-> pages.val ] >>
                                            \o rest.val)

\* struct TextcFile read with a header of header_words words, the last of
\* which is num_strings.
TextcFileDecoded(f, header_words) ==
    IF ~HasWords(f, 1, header_words, "u32") \/ f[1] # U32(5526612) THEN DecodeFailed
    ELSE ReadStrings(f, header_words + 1, f[header_words].v)

\* The string records of a file whose header is the two words main writes,
\* read to the end of the file whatever num_strings says.
RecordsDecoded(f, count) ==
    IF ~HasWords(f, 1, WrittenHeaderWords, "u32") THEN DecodeFailed
    ELSE LET records == ReadStrings(f, WrittenHeaderWords + 1, count)
         IN  IF records.ok /\ records.pos = Len(f) + 1 THEN records ELSE DecodeFailed

\* ------------------------------------------------ what the encoder was given

\* The rows of strings.csv with a target width, in the order of the table.
SizedRows(table) == SelectSeq(table, LAMBDA row : row.width > 0)

\* The quad of a glyph: (x0,y0,u0,v0), (x0,y1,u0,v1), (x1,y1,u1,v1),
\* (x1,y0,u1,v0).
QuadOf(glyph, uv) ==
    << [ x |-> glyph.x0, y |-> glyph.y0, u |-> uv.u0, v |-> uv.v0 ],
       [ x |-> glyph.x0, y |-> glyph.y1, u |-> uv.u0, v |-> uv.v1 ],
       [ x |-> glyph.x1, y |-> glyph.y1, u |-> uv.u1, v |-> uv.v1 ],
       [ x |-> glyph.x1, y |-> glyph.y0, u |-> uv.u1, v |-> uv.v0 ] >>

\* A page: its tag spans and the quads of its glyphs in their order.
FedPage(page, used, uvs, beyond) ==
    [ ranges   |-> [ k \in 1..Len(page.user_tags) |->
                       [ name      |-> SubSeq(page.user_tags[k].value, 1,
                                              page.user_tags[k].value_len),
                         start_idx |-> page.user_tags[k].start_idx,
                         end_idx   |-> page.user_tags[k].end_idx ] ],
      vertices |-> Flatten([ k \in 1..Len(page.typeset_glyphs) |->
                     QuadOf(page.typeset_glyphs[k],
                            UvAt(uvs, UsedGlyphIndex(used, page.typeset_glyphs[k].glyph_uid),
                                 beyond)) ]) ]

\* The strings with a target width, each with its key, its size and its
\* rendered pages.
Fed(table, rendered, used, uvs, beyond) ==
    [ i \in 1..Len(rendered) |->
        [ name   |-> SizedRows(table)[i].key,
          width  |-> SizedRows(table)[i].width,
          height |-> SizedRows(table)[i].height,
          pages  |-> [ j \in 1..Len(rendered[i]) |->
                        FedPage(rendered[i][j], used, uvs, beyond) ] ] ]

\* This run has written bin/strings.txtc.
OutputWritten ==
    /\ pc = "exit"
    /\ exit_status = "0"
    /\ ~input.cached_hash_matched
    /\ Len(argv) >= 1

\* bin/strings.txtc reads back, with the header of the given number of
\* words, as what the encoder was given.
ReadsBackAsFed(header_words) ==
    \E beyond \in OutOfBoundsUvs :
        LET d == TextcFileDecoded(strings_file[1], header_words)
        IN  /\ d.ok
            /\ d.val = Fed(strings, results, used_glyphs, glyph_uvs[1], beyond)

\* C15: bin/strings.txtc, read by the documented layout (with the header of
\* the documentation, or with the header main writes), gives back the
\* strings, pages, tag spans and quads the encoder was given, for every table,
\* those with rows of width 0 included.
C15_RoundTrip ==
    OutputWritten =>
        \/ ReadsBackAsFed(DocumentedHeaderWords)
        \/ ReadsBackAsFed(WrittenHeaderWords)

\* Every row of the table has a target width.
AllRowsSized == \A i \in 1..Len(strings) : strings[i].width > 0

\* The glyphs of every page are in ascending order of source offset.
PagesInSourceOrder ==
    \A i \in 1..Len(results) : \A j \in 1..Len(results[i]) :
        \A k \in 1..(Len(results[i][j].typeset_glyphs) - 1) :
            results[i][j].typeset_glyphs[k].source_idx
                <= results[i][j].typeset_glyphs[k + 1].source_idx

\* C19: the records of bin/strings.txtc are those of the strings with a
\* target width and of no other: each carries the key and size of its string,
\* and each of its pages 4 vertices a glyph, in ascending order of source
\* offset, as (x0,y0,u0,v0), (x0,y1,u0,v1), (x1,y1,u1,v1), (x1,y0,u1,v0).
C19_RecordsOfSizedStrings ==
    OutputWritten =>
        /\ PagesInSourceOrder
        /\ \E beyond \in OutOfBoundsUvs :
              LET d == RecordsDecoded(strings_file[1], Len(SizedRows(strings)))
              IN  /\ d.ok
                  /\ d.val = Fed(strings, results, used_glyphs, glyph_uvs[1], beyond)

\* ------------------------------------------------ the pages of render_page

\* A page is handed to render_page: by a page break or at the end of the
\* markup.
AtRender == pc = "render"

\* The RenderedPage the step of render_page has returned.
NewPage ==
    IF pages_acc' # << >> THEN Last(pages_acc') ELSE Last(Last(results'))

\* The glyphs of the page, after the sort, whose source offset is o.
GlyphsAt(glyphs, o) == { g \in 1..Len(glyphs) : glyphs[g].source_idx = o }

\* The largest of a set of offsets.
Largest(offsets) == CHOOSE o \in offsets : \A p \in offsets : p <= o

\* map gives an offset with a glyph the array index of a glyph at that
\* offset, any other offset the value of the nearest smaller offset with a
\* glyph, and 0 when there is none.
MapAsDescribed(map, glyphs, len) ==
    \A o \in 0..(len - 1) :
        LET before == { p \in 0..(o - 1) : GlyphsAt(glyphs, p) # {} }
        IN  IF GlyphsAt(glyphs, o) # {} THEN (map[o] + 1) \in GlyphsAt(glyphs, o)
            ELSE IF before # {} THEN map[o] = map[Largest(before)]
            ELSE map[o] = 0

MapNonDecreasing(map, len) ==
    \A o1, o2 \in 0..(len - 1) : o1 <= o2 => map[o1] <= map[o2]

\* a <= b for two uint32_t words, UINT32_MAX being the largest of them.
UnsignedLeq(a, b) == b = UINT32_MAX \/ (a # UINT32_MAX /\ a <= b)

SortedBySourceOffset(glyphs) ==
    \A g \in 1..(Len(glyphs) - 1) : glyphs[g].source_idx <= glyphs[g + 1].source_idx

\* C21: in render_page the glyphs are sorted by source offset, the map from
\* offsets to glyph indices is as described and non-decreasing, and every
\* span of the page with start <= end has start_idx <= end_idx once its
\* offsets are replaced through the map.
C21_IndexMapFillForward ==
    [][ AtRender =>
          LET map == IndexMap(typeset_glyphs', Len(page_write))
          IN  /\ SortedBySourceOffset(typeset_glyphs')
              /\ MapAsDescribed(map, typeset_glyphs', Len(page_write))
              /\ MapNonDecreasing(map, Len(page_write))
              /\ Len(NewPage.user_tags) = Len(user_tags)
              /\ \A t \in 1..Len(user_tags) :
                    user_tags[t].start_idx <= user_tags[t].end_idx
                        => UnsignedLeq(NewPage.user_tags[t].start_idx,
                                       NewPage.user_tags[t].end_idx) ]_vars

\* C22: the num_strings word of the header of bin/strings.txtc is the number
\* of string records that follow it: reading that many records takes the
\* reader exactly to the end of the file; for every table, those with rows of
\* width 0 included.
C22_NumStringsCountsRecords ==
    OutputWritten =>
        LET f == strings_file[1]
        IN  RecordsDecoded(f, f[WrittenHeaderWords].v).ok

\* C23: every string record of bin/strings.txtc carries the key, width and
\* height of the row whose pages, tags and vertices it holds; for every
\* table, those where a row of width 0 precedes a row with a width included.
C23_RecordLabelledByItsRow ==
    OutputWritten =>
        \E beyond \in OutOfBoundsUvs :
            LET d   == RecordsDecoded(strings_file[1], Len(results))
                fed == Fed(strings, results, used_glyphs, glyph_uvs[1], beyond)
            IN  /\ d.ok
                /\ \A i \in 1..Len(results) :
                      /\ d.val[i].pages = fed[i].pages
                      /\ d.val[i].name = SizedRows(strings)[i].key
                      /\ d.val[i].width = SizedRows(strings)[i].width
                      /\ d.val[i].height = SizedRows(strings)[i].height

\* The spans of a page handed to render_page lie in its text, start first.
SpansInText(tags, text) ==
    \A t \in 1..Len(tags) :
        /\ 0 <= tags[t].start_idx
        /\ tags[t].start_idx <= tags[t].end_idx
        /\ tags[t].end_idx <= Len(text)

\* C24: every span of a page satisfies 0 <= start <= end <= len(page text)
\* when the page is handed to render_page, before its offsets are replaced;
\* for every markup, those with a page break between the opening and the
\* closing of a tag included.
C24_SpansWithinPageText ==
    \A c \in 1..Len(layout_calls) :
        SpansInText(layout_calls[c].user_tags, layout_calls[c].text)

\* ------------------------------------------------ runs one after another

\* The command lines of the runs: no argument, the two languages of the
\* header and a key that is not in it.
RunCommandLines ==
    { << >>, << << "e", "n" >> >>, << << "f", "r" >> >>, << << "x", "x" >> >> }

\* strings.csv of the runs.
RunTables ==
    { << StringsCsvEntry(RowKeys[1], 8, 8, ExampleTagPages) >>,
      << StringsCsvEntry(RowKeys[1], 0, 8, ExampleBlank),
         StringsCsvEntry(RowKeys[2], 8, 8, ExampleEscapeStyles) >> }

\* The first run starts in a directory that holds styles.csv and strings.csv
\* and either nothing else or the files of an earlier build of other tables.
InitRuns ==
    /\ styles = BuildStyles
    /\ strings \in RunTables
    /\ earlier_runs = << >>
    /\ pc = "start"
    /\ InitLocals
    /\ pack = [ pc |-> "idle" ]
    /\ glyph_uvs = << >>
    /\ index_buffer = [ pc |-> "idle" ]
    /\ argv \in RunCommandLines
    /\ input = [ hash |-> W32(0), cached_hash_matched |-> FALSE, parsed |-> FALSE ]
    /\ \/ /\ cache_file = << >>
          /\ strings_file = << >>
          /\ atlas_file = << >>
       \/ \E earlier \in EarlierBuilds(styles, strings) :
             /\ earlier.cache.csv_hash # InputHash(styles, strings)
             /\ cache_file = << earlier.cache >>
             /\ strings_file = << EarlierStringsFile >>
             /\ atlas_file = << earlier.atlas >>
    /\ exit_status = "running"
    /\ rasterizer_calls = << >>

\* What is known of a run that is over.
EndedRun ==
    [ argv        |-> argv,
      exit_status |-> exit_status,
      skipped     |-> input.cached_hash_matched ]

\* The program is started again in the same directory, with the tables as
\* they are: a new process, the files as the last run left them.
RunAgain ==
    /\ pc = "exit"
    /\ Len(earlier_runs) + 1 < MaxRuns
    /\ earlier_runs' = Append(earlier_runs, EndedRun)
    /\ pc' = "start"
    /\ string_idx' = 0
    /\ results' = << >>
    /\ page_read' = 0
    /\ tag_start' = NULL
    /\ in_style_tag' = FALSE
    /\ page_write' = << >>
    /\ cur_style' = 0
    /\ attr_range_start' = 0
    /\ attr_list' = << >>
    /\ style_history' = << >>
    /\ user_tag_stack' = << >>
    /\ user_tags' = << >>
    /\ pages_acc' = << >>
    /\ used_glyphs' = << >>
    /\ typeset_glyphs' = << >>
    /\ cur_face' = << >>
    /\ cur_source_offset' = 0
    /\ layout_calls' = << >>
    /\ shaped_glyphs' = {}
    /\ pack' = [ pc |-> "idle" ]
    /\ glyph_uvs' = << >>
    /\ argv' \in RunCommandLines
    /\ input' = [ hash |-> W32(0), cached_hash_matched |-> FALSE, parsed |-> FALSE ]
    /\ exit_status' = "running"
    /\ rasterizer_calls' = << >>
    /\ UNCHANGED << styles, strings, index_vars, file_vars >>

NextRuns ==
    \/ NextBuild
    \/ RunAgain

SpecRuns == InitRuns /\ [][NextRuns]_vars

\* A run that is over ran to completion and wrote bin/strings.txtc.
WroteOutput(run) ==
    /\ Len(run.argv) >= 1
    /\ run.exit_status = "0"
    /\ ~run.skipped

\* C25: in a sequence of runs on the same styles.csv and strings.csv, begun
\* with no cache record of these tables, a run skips the build on the match
\* of the input hash only if an earlier run of the sequence ran to completion
\* and wrote the binary output; a run that stores the input hash and then
\* aborts or exits with an error does not make the next run skip.
C25_SkipOnlyAfterCompletedRun ==
    [][ (pc = "start" /\ input'.cached_hash_matched)
          => \E r \in 1..Len(earlier_runs) : WroteOutput(earlier_runs[r]) ]_vars

\* The run before this one completed for a language of the header, and this
\* run names another language of the header.
LanguageChanged ==
    /\ earlier_runs # << >>
    /\ WroteOutput(Last(earlier_runs))
    /\ ~UsageError
    /\ ~StrcmpIsZero(Last(earlier_runs).argv[1], argv[1])

\* C28: after a completed run for one language, a run on the same tables
\* with another language of the header is not skipped, and when it ends
\* bin/strings.txtc is the encoding of what that run has shaped.
C28_SkipAccountsForLanguage ==
    /\ [][ (pc = "start" /\ LanguageChanged) => ~input'.cached_hash_matched ]_vars
    /\ []((pc = "exit" /\ LanguageChanged /\ exit_status = "0")
            => /\ OutputWritten
               /\ \E beyond \in OutOfBoundsUvs :
                     strings_file = << EncodedFile(strings, results, used_glyphs,
                                                   glyph_uvs[1], beyond) >>)

\* ------------------------------------------------ the UVs of the quads

\* The rows of strings.csv (from 1) that have a result, in order.
RowsWithResult ==
    SelectSeq([ r \in 1..Len(strings) |-> r ], LAMBDA r : strings[r].width > 0)

\* The layout of page number j (from 1) of row r, as handed to the shaping
\* engine.
CallOfPage(r, j) ==
    layout_calls[CHOOSE c \in 1..Len(layout_calls) :
                    /\ layout_calls[c].string = r - 1
                    /\ layout_calls[c].page = j - 1]

\* The face of the style range that covers offset o of a layout.
FaceAt(call, o) ==
    LET a == CHOOSE r \in 1..Len(call.attr_list) :
                 call.attr_list[r].start <= o /\ o < call.attr_list[r].end
    IN  styles[call.attr_list[a].style + 1].style.face

\* The position in the registry of the entry of a (face, glyph index) pair.
OwnEntry(face, id) ==
    CHOOSE e \in 1..Len(used_glyphs) :
        used_glyphs[e].id = id /\ StrcmpIsZero(used_glyphs[e].face, face)

\* The four vertices of glyph number k (from 1) of a decoded page.
VerticesOfGlyph(page, k) == SubSeq(page.vertices, (4 * k) - 3, 4 * k)

\* C26: every quad of bin/strings.txtc carries the UV rectangle of the atlas
\* entry of the glyph's own face and glyph index, also when two faces use the
\* same glyph index.
C26_QuadCarriesOwnUv ==
    OutputWritten =>
        \E beyond \in OutOfBoundsUvs :
            LET d == RecordsDecoded(strings_file[1], Len(results))
            IN  /\ d.ok
                /\ \A i \in 1..Len(results) : \A j \in 1..Len(results[i]) :
                     \A k \in 1..Len(results[i][j].typeset_glyphs) :
                        LET glyph == results[i][j].typeset_glyphs[k]
                            call  == CallOfPage(RowsWithResult[i], j)
                            own   == OwnEntry(FaceAt(call, glyph.source_idx),
                                              GlyphIndex(call.text[glyph.source_idx + 1]))
                        IN  VerticesOfGlyph(d.val[i].pages[j], k)
                               = QuadOf(glyph, UvAt(glyph_uvs[1], own, beyond))

\* bake_used_glyphs_to_atlas_cached has returned the table of the cache
\* record.
CachedTableReturned == glyph_uvs # << >> /\ pack.pc = "idle"

\* C27: a table returned from the cache record has exactly one entry for
\* every identity of the registry, in the registry's sorted order: it is a
\* table a bake of this registry gives.
C27_CachedTableIsOfRegistry ==
    CachedTableReturned =>
        /\ Len(glyph_uvs[1]) = Len(used_glyphs)
        /\ \E o \in BakeOutcomes(used_glyphs) : o.uvs = glyph_uvs[1]

\* The glyph indices (from 0) a rewritten span selects.
SelectedGlyphs(tag, glyphs) ==
    { g \in 0..(Len(glyphs) - 1) :
        UnsignedLeq(tag.start_idx, g) /\ ~UnsignedLeq(tag.end_idx, g) }

\* The glyph indices (from 0) of the glyphs whose source offset is in [s, e).
GlyphsInside(s, e, glyphs) ==
    { g \in 0..(Len(glyphs) - 1) :
        s <= glyphs[g + 1].source_idx /\ glyphs[g + 1].source_idx < e }

\* C29: a span that covers the range [s, e) of a page text selects, once its
\* offsets are replaced, the glyphs whose source offset is in [s, e) and no
\* other; also when the character at s or at e has no glyph and when e is
\* the end of the text.
C29_SpanSelectsItsGlyphs ==
    [][ AtRender =>
          \A t \in 1..Len(user_tags) :
              SpansInText(<< user_tags[t] >>, page_write)
                  => SelectedGlyphs(NewPage.user_tags[t], typeset_glyphs')
                       = GlyphsInside(user_tags[t].start_idx, user_tags[t].end_idx,
                                      typeset_glyphs') ]_vars

====
